---- MODULE Spec2Model ----
(***************************************************************************)
(* Strategy execution engine of MoneyMitra: the condition evaluator        *)
(* (indicators.py), the backtest driver (backtest_worker.py) and the       *)
(* forward driver (forward_runner.py) with the portfolio ledger            *)
(* (models.py).                                                            *)
(*                                                                         *)
(* Numbers are exact rationals [n, d] (d > 0, lowest terms); the float     *)
(* "not a number" of a warm-up bar is the record NaN.  Strings the code    *)
(* searches, substitutes and evaluates are sequences of characters.        *)
(***************************************************************************)
EXTENDS Integers, Sequences, FiniteSets, TLC

(***************************************************************************)
(* Bounds of the model.                                                    *)
(***************************************************************************)
\* length of the indicator series the condition evaluator is applied to
MaxSeries == 2

\* number of bars of a backtest
MaxBars == 3

\* timestamps of the bars a forward run fetches
MaxTs == 2

\* polling cycles of a forward run
MaxCycles == 2

\* trades of a trade list handed to the metrics calculator
MaxTrades == 2

\* calls of start, stop, deploy_strategy and stop_deployment
MaxCalls == 5

\* bars of the longest answer of the data source to one fetch
MaxRun == 101

(***************************************************************************)
(* Constants of the program.                                               *)
(***************************************************************************)
\* ForwardRunner.window_size
window_size == 100

\* the seconds _run_loop sleeps in its except clause
ErrorDelay == 60

(***************************************************************************)
(* Exact arithmetic.                                                       *)
(***************************************************************************)
RECURSIVE GCD(_, _)
GCD(a, b) == IF b = 0 THEN a ELSE GCD(b, a % b)

Abs(x) == IF x < 0 THEN -x ELSE x

\* a float: the rational n/d (d > 0) in lowest terms, or one of the values
\* with d = 0, which are nan (n = 0), inf (n = 1) and -inf (n = -1)
Rat(n, d) == LET g == GCD(Abs(n), d) IN [n |-> n \div g, d |-> d \div g]

RInt(k) == [n |-> k, d |-> 1]

\* float('nan'): every ordered comparison with it is false
NaN == [n |-> 0, d |-> 0]

IsNaN(x) == x.d = 0 /\ x.n = 0

IsInf(x) == x.d = 0 /\ x.n # 0

Sgn(k) == IF k < 0 THEN -1 ELSE IF k > 0 THEN 1 ELSE 0

\* inf, -inf or nan (for s = 0)
Inf(s) == [n |-> s, d |-> 0]

\* sums and products cancel common factors before they multiply
RAdd(a, b) ==
    IF IsNaN(a) \/ IsNaN(b) THEN NaN
    ELSE IF IsInf(a) THEN (IF IsInf(b) /\ b.n # a.n THEN NaN ELSE a)
    ELSE IF IsInf(b) THEN b
    ELSE LET g == GCD(a.d, b.d)
         IN Rat(a.n * (b.d \div g) + b.n * (a.d \div g), (a.d \div g) * b.d)

RSub(a, b) ==
    IF IsNaN(a) \/ IsNaN(b) THEN NaN
    ELSE IF IsInf(a) THEN (IF IsInf(b) /\ b.n = a.n THEN NaN ELSE a)
    ELSE IF IsInf(b) THEN Inf(-b.n)
    ELSE LET g == GCD(a.d, b.d)
         IN Rat(a.n * (b.d \div g) - b.n * (a.d \div g), (a.d \div g) * b.d)

\* inf * 0 is nan
RMul(a, b) ==
    IF a.d = 0 \/ b.d = 0 THEN Inf(Sgn(a.n) * Sgn(b.n))
    ELSE LET g1 == GCD(Abs(a.n), b.d)
             g2 == GCD(Abs(b.n), a.d)
         IN Rat((a.n \div g1) * (b.n \div g2), (a.d \div g2) * (b.d \div g1))

\* a / b as numpy divides its float64 (the prices of a DataFrame): x / 0 is
\* inf or -inf, 0 / 0 and inf / inf are nan, x / inf is 0
RDiv(a, b) ==
    IF IsNaN(a) \/ IsNaN(b) THEN NaN
    ELSE IF IsInf(b) THEN (IF IsInf(a) THEN NaN ELSE RInt(0))
    ELSE IF b.n = 0 THEN Inf(Sgn(a.n))
    ELSE IF IsInf(a) THEN Inf(a.n * Sgn(b.n))
    ELSE RMul(a, IF b.n < 0 THEN [n |-> -b.d, d |-> -b.n] ELSE [n |-> b.d, d |-> b.n])

RLt(a, b) ==
    /\ ~IsNaN(a)
    /\ ~IsNaN(b)
    /\ IF a.d = 0 \/ b.d = 0
       THEN (IF a.d = 0 THEN a.n ELSE 0) < (IF b.d = 0 THEN b.n ELSE 0)
       ELSE LET g == GCD(a.d, b.d) IN a.n * (b.d \div g) < b.n * (a.d \div g)

RLe(a, b) ==
    /\ ~IsNaN(a)
    /\ ~IsNaN(b)
    /\ IF a.d = 0 \/ b.d = 0
       THEN (IF a.d = 0 THEN a.n ELSE 0) <= (IF b.d = 0 THEN b.n ELSE 0)
       ELSE LET g == GCD(a.d, b.d) IN a.n * (b.d \div g) <= b.n * (a.d \div g)

RGt(a, b) == RLt(b, a)

RGe(a, b) == RLe(b, a)

REq(a, b) == ~IsNaN(a) /\ ~IsNaN(b) /\ a = b

(***************************************************************************)
(* Python values: None, bool, float; truthiness as `if x:` decides it.     *)
(***************************************************************************)
None == [none |-> TRUE]

PyBool(b) == [t |-> "bool", b |-> b]

PyNum(v) == [t |-> "num", v |-> v]

PyFalse == PyBool(FALSE)

PyTrue == PyBool(TRUE)

\* an exception leaving the callee
Raised == [t |-> "raise"]

\* bool(x) of a Python value: a float is true unless it is 0.0 (nan is true)
PyTruthy(x) ==
    IF x.t = "bool" THEN x.b
    ELSE IF x.t = "num" THEN IsNaN(x.v) \/ x.v.n # 0
    ELSE FALSE

\* truthiness of an optional price (None or a float), as in `if stop_loss_pct`
Truthy(x) == x # None /\ (IsNaN(x) \/ x.n # 0)

(***************************************************************************)
(* Strings as sequences of characters.                                     *)
(***************************************************************************)
Digits == <<"0", "1", "2", "3", "4", "5", "6", "7", "8", "9">>

DigitSet == {Digits[i] : i \in 1..10}

DigitVal(c) == (CHOOSE i \in 1..10 : Digits[i] = c) - 1

\* str(k) for an integer k >= 0
RECURSIVE IntStr(_)
IntStr(k) == IF k < 10 THEN <<Digits[k + 1]>>
             ELSE IntStr(k \div 10) \o <<Digits[(k % 10) + 1]>>

\* str(value) of a float: "nan", or the shortest decimal; the values that
\* occur have denominators 1 or 2 ("7.0", "10.5")
FloatStr(v) ==
    IF IsNaN(v) THEN <<"n", "a", "n">>
    ELSE IF IsInf(v) THEN (IF v.n < 0 THEN <<"-">> ELSE <<>>) \o <<"i", "n", "f">>
    ELSE LET a == Abs(v.n)
             whole == a \div v.d
             frac == ((a % v.d) * 10) \div v.d
         IN (IF v.n < 0 THEN <<"-">> ELSE <<>>) \o IntStr(whole) \o <<".">> \o IntStr(frac)

\* pat occurs in s at position i
MatchAt(s, i, pat) ==
    /\ i + Len(pat) - 1 <= Len(s)
    /\ \A k \in 1..Len(pat) : s[i + k - 1] = pat[k]

\* `pat in s`
Contains(s, pat) == \E i \in 1..(Len(s) + 1) : MatchAt(s, i, pat)

\* s.replace(old, new): every non-overlapping occurrence, left to right
RECURSIVE ReplaceFrom(_, _, _, _)
ReplaceFrom(s, i, old, new) ==
    IF i > Len(s) THEN <<>>
    ELSE IF MatchAt(s, i, old) THEN new \o ReplaceFrom(s, i + Len(old), old, new)
    ELSE <<s[i]>> \o ReplaceFrom(s, i + 1, old, new)

Replace(s, old, new) == ReplaceFrom(s, 1, old, new)

\* the end of the run of digits starting at i (i - 1 when there is none)
RECURSIVE DigitRunEnd(_, _)
DigitRunEnd(s, i) ==
    IF i <= Len(s) /\ s[i] \in DigitSet THEN DigitRunEnd(s, i + 1) ELSE i - 1

\* re.findall(r'b\d+', s)
RECURSIVE FindBlockIds(_, _)
FindBlockIds(s, i) ==
    IF i > Len(s) THEN <<>>
    ELSE IF s[i] = "b" /\ DigitRunEnd(s, i + 1) >= i + 1
         THEN <<SubSeq(s, i, DigitRunEnd(s, i + 1))>>
                  \o FindBlockIds(s, DigitRunEnd(s, i + 1) + 1)
         ELSE FindBlockIds(s, i + 1)

(***************************************************************************)
(* eval() of a substituted comparison: the expressions are numbers,         *)
(* names and one binary operator.  A name that is no number literal is a    *)
(* NameError or a SyntaxError; both reach the caller's bare except.         *)
(***************************************************************************)
OpChars == {"<", ">", "=", "!", "+", "-", "*", "/", "(", ")", ","}

IsWordChar(c) == c # " " /\ c \notin OpChars

RECURSIVE WordEnd(_, _)
WordEnd(s, i) ==
    IF i <= Len(s) /\ IsWordChar(s[i]) THEN WordEnd(s, i + 1) ELSE i - 1

RECURSIVE Tokens(_, _)
Tokens(s, i) ==
    IF i > Len(s) THEN <<>>
    ELSE IF s[i] = " " THEN Tokens(s, i + 1)
    ELSE IF IsWordChar(s[i])
         THEN <<SubSeq(s, i, WordEnd(s, i))>> \o Tokens(s, WordEnd(s, i) + 1)
    ELSE IF s[i] \in {"<", ">", "=", "!"} /\ i < Len(s) /\ s[i + 1] = "="
         THEN <<SubSeq(s, i, i + 1)>> \o Tokens(s, i + 2)
    ELSE <<SubSeq(s, i, i)>> \o Tokens(s, i + 1)

\* a decimal literal: digits, optionally a point and more digits
IsNumLit(w) ==
    /\ Len(w) >= 1
    /\ w[1] \in DigitSet
    /\ \A k \in 1..Len(w) : w[k] \in DigitSet \cup {"."}
    /\ Cardinality({k \in 1..Len(w) : w[k] = "."}) <= 1

RECURSIVE DecVal(_, _)
DecVal(ds, k) == IF k = 0 THEN 0 ELSE DecVal(ds, k - 1) * 10 + DigitVal(ds[k])

RECURSIVE Pow10(_)
Pow10(k) == IF k = 0 THEN 1 ELSE 10 * Pow10(k - 1)

\* the value of a decimal literal
ParseNum(w) ==
    LET ds == SelectSeq(w, LAMBDA c : c \in DigitSet)
        dots == {k \in 1..Len(w) : w[k] = "."}
        fraclen == IF dots = {} THEN 0 ELSE Len(w) - (CHOOSE k \in dots : TRUE)
    IN Rat(DecVal(ds, Len(ds)), Pow10(fraclen))

BinOp(op, a, b) ==
    IF op = <<">">> THEN PyBool(RGt(a, b))
    ELSE IF op = <<"<">> THEN PyBool(RLt(a, b))
    ELSE IF op = <<">", "=">> THEN PyBool(RGe(a, b))
    ELSE IF op = <<"<", "=">> THEN PyBool(RLe(a, b))
    ELSE IF op = <<"=", "=">> THEN PyBool(REq(a, b))
    ELSE IF op = <<"!", "=">> THEN PyBool(~REq(a, b))
    ELSE IF op = <<"+">> THEN PyNum(RAdd(a, b))
    ELSE IF op = <<"-">> THEN PyNum(RSub(a, b))
    ELSE IF op = <<"*">> THEN PyNum(RMul(a, b))
    ELSE Raised

\* eval(expr_eval): the value of the expression, whatever its type
EvalPy(s) ==
    LET t == Tokens(s, 1)
    IN IF Len(t) = 1 /\ IsNumLit(t[1]) THEN PyNum(ParseNum(t[1]))
       ELSE IF Len(t) = 3 /\ IsNumLit(t[1]) /\ IsNumLit(t[3])
            THEN BinOp(t[2], ParseNum(t[1]), ParseNum(t[3]))
       ELSE Raised

(***************************************************************************)
(* ConditionEvaluator.  The indicator map is an insertion-ordered dict:    *)
(* a sequence of [id, series] with distinct ids.  Bar index idx is         *)
(* 0-based as in the code; series[idx + 1] is series.iloc[idx].            *)
(***************************************************************************)
IndHas(indicators, id) == \E k \in 1..Len(indicators) : indicators[k].id = id

IndSeries(indicators, id) ==
    indicators[CHOOSE k \in 1..Len(indicators) : indicators[k].id = id].series

S_cross_over == <<"c", "r", "o", "s", "s", "_", "o", "v", "e", "r">>

S_cross_under == <<"c", "r", "o", "s", "s", "_", "u", "n", "d", "e", "r">>

\* EvaluateCrossover with the previous bar compared non-strictly
EvaluateCrossover_NonStrict(expr, indicators, idx, is_over) ==
    LET matches == FindBlockIds(expr, 1)
    IN IF Len(matches) # 2 THEN PyFalse
       ELSE IF ~IndHas(indicators, matches[1]) \/ ~IndHas(indicators, matches[2]) \/ idx < 1
            THEN PyFalse
       ELSE LET series1 == IndSeries(indicators, matches[1])
                series2 == IndSeries(indicators, matches[2])
            IN IF idx + 1 > Len(series1) \/ idx + 1 > Len(series2)
               THEN Raised
               ELSE LET prev_below == RLe(series1[idx], series2[idx])
                        curr_above == RGt(series1[idx + 1], series2[idx + 1])
                    IN IF is_over THEN PyBool(prev_below /\ curr_above)
                       ELSE PyBool((~prev_below) /\ (~curr_above))

EvaluateCrossover(expr, indicators, idx, is_over) ==
    LET matches == FindBlockIds(expr, 1)
    IN IF Len(matches) # 2 THEN PyFalse
       ELSE IF ~IndHas(indicators, matches[1]) \/ ~IndHas(indicators, matches[2]) \/ idx < 1
            THEN PyFalse
       ELSE LET series1 == IndSeries(indicators, matches[1])
                series2 == IndSeries(indicators, matches[2])
            IN IF idx + 1 > Len(series1) \/ idx + 1 > Len(series2)
               THEN Raised  \* iloc out of bounds: IndexError
               ELSE LET prev_below == RLt(series1[idx], series2[idx])
                        curr_above == RGt(series1[idx + 1], series2[idx + 1])
                    IN IF is_over THEN PyBool(prev_below /\ curr_above)
                       ELSE PyBool((~prev_below) /\ (~curr_above))

\* the substitution loop: [nan |-> TRUE] when a referenced value is undefined
RECURSIVE SubstituteIds(_, _, _, _)
SubstituteIds(expr_eval, indicators, k, idx) ==
    IF k > Len(indicators) THEN [nan |-> FALSE, s |-> expr_eval]
    ELSE LET block_id == indicators[k].id
             series == indicators[k].series
         IN IF Contains(expr_eval, block_id)
            THEN LET value == IF idx < Len(series) THEN series[idx + 1] ELSE NaN
                 IN IF IsNaN(value) THEN [nan |-> TRUE, s |-> expr_eval]
                    ELSE SubstituteIds(Replace(expr_eval, block_id, FloatStr(value)),
                                       indicators, k + 1, idx)
            ELSE SubstituteIds(expr_eval, indicators, k + 1, idx)

EvaluateComparison(expr, indicators, idx) ==
    LET r == SubstituteIds(expr, indicators, 1, idx)
    IN IF r.nan THEN PyFalse
       ELSE LET v == EvalPy(r.s) IN IF v = Raised THEN PyFalse ELSE v

\* ConditionEvaluator.evaluate: the value handed to the driver's `if`
Evaluate(condition_expr, indicators, current_idx) ==
    LET r == IF Contains(condition_expr, S_cross_over)
             THEN EvaluateCrossover(condition_expr, indicators, current_idx, TRUE)
             ELSE IF Contains(condition_expr, S_cross_under)
             THEN EvaluateCrossover(condition_expr, indicators, current_idx, FALSE)
             ELSE EvaluateComparison(condition_expr, indicators, current_idx)
    IN IF r = Raised THEN PyFalse ELSE r

(***************************************************************************)
(* Inputs: block ids and condition expressions of the forms the strategy   *)
(* builder produces ("cross_over(b1,b2)", "b1 > 70", "b1 < b2").            *)
(***************************************************************************)
B1 == <<"b", "1">>

B2 == <<"b", "2">>

B3 == <<"b", "3">>

XOver(a, b) == S_cross_over \o <<"(">> \o a \o <<",">> \o b \o <<")">>

XUnder(a, b) == S_cross_under \o <<"(">> \o a \o <<",">> \o b \o <<")">>

Cmp(a, op, b) == a \o <<" ">> \o op \o <<" ">> \o b

\* the expressions the evaluator is applied to; B3 names no indicator
CrossExprs ==
    {XOver(B1, B2), XOver(B2, B1), XUnder(B1, B2), XUnder(B2, B1),
     XOver(B1, B3), XUnder(B3, B2)}

CompareExprs ==
    {Cmp(B1, <<">">>, <<"6">>), Cmp(B1, <<"<">>, B2), Cmp(B2, <<">", "=">>, B1),
     Cmp(B3, <<">">>, <<"6">>)}

\* expressions that are no boolean comparison: a bare id, an arithmetic term
NonBooleanExprs == {B1, Cmp(B1, <<"+">>, <<"1">>), Cmp(B2, <<"-">>, <<"5">>)}

CondExprs == CrossExprs \cup CompareExprs \cup NonBooleanExprs

\* values of an indicator series: undefined (warm-up) or a number
SeriesValues == {NaN, RInt(5), RInt(7)}

SeriesSet == [1..MaxSeries -> SeriesValues]

\* indicator maps over b1, b2: both, one of them, or none
IndicatorMaps ==
    {<<>>}
    \cup {<<[id |-> B1, series |-> s]>> : s \in SeriesSet}
    \cup {<<[id |-> B1, series |-> s], [id |-> B2, series |-> t]>> :
              s \in SeriesSet, t \in SeriesSet}
    \cup {<<[id |-> B2, series |-> t], [id |-> B1, series |-> s]>> :
              s \in {[i \in 1..MaxSeries |-> RInt(5)]}, t \in SeriesSet}

(***************************************************************************)
(* IndicatorEngine.  A bar is [high, low, close] (whole prices); df is a   *)
(* sequence of bars and a bar's timestamp is its position in df.           *)
(***************************************************************************)
\* dict.get(key, default) on a params dict (a record; <<>> is the empty dict)
ParamGet(params, key, default) ==
    IF key \in DOMAIN params THEN params[key] ELSE default

\* str.upper() on the indicator names the inputs use
Upper(indicator) ==
    CASE indicator = "sma" -> "SMA"
      [] indicator = "foo" -> "FOO"
      [] OTHER -> indicator

RECURSIVE SumClose(_, _, _)
SumClose(df, from, to) ==
    IF from > to THEN RInt(0)
    ELSE RAdd(RInt(df[to].close), SumClose(df, from, to - 1))

\* df['close'].rolling(window=period).mean(): undefined on the first period-1 bars
sma(df, period) ==
    [i \in 1..Len(df) |->
        IF i < period THEN NaN
        ELSE RDiv(SumClose(df, i - period + 1, i), RInt(period))]

\* Series.ewm(span=span, adjust=False).mean(): the first value as it is,
\* then alpha * x + (1 - alpha) * previous with alpha = 2 / (span + 1)
RECURSIVE EwmAt(_, _, _)
EwmAt(xs, span, i) ==
    LET alpha == Rat(2, span + 1)
    IN IF i = 1 THEN xs[1]
       ELSE RAdd(RMul(alpha, xs[i]), RMul(RSub(RInt(1), alpha), EwmAt(xs, span, i - 1)))

Ewm(xs, span) == [i \in 1..Len(xs) |-> EwmAt(xs, span, i)]

CloseSeries(df) == [i \in 1..Len(df) |-> RInt(df[i].close)]

ema(df, period) == Ewm(CloseSeries(df), period)

\* the keys of the dicts macd and bollinger return
S_macd == <<"m", "a", "c", "d">>

S_signal == <<"s", "i", "g", "n", "a", "l">>

S_histogram == <<"h", "i", "s", "t", "o", "g", "r", "a", "m">>

S_upper == <<"u", "p", "p", "e", "r">>

S_middle == <<"m", "i", "d", "d", "l", "e">>

S_lower == <<"l", "o", "w", "e", "r">>

\* a dict of series in insertion order
Entry(key, series) == [key |-> key, series |-> series]

\* dict.get(key): the entry that holds the series, or None
DictGet(dict, key) ==
    IF \E k \in 1..Len(dict) : dict[k].key = key
    THEN dict[CHOOSE k \in 1..Len(dict) : dict[k].key = key]
    ELSE None

macd(df, fast, slow, signal) ==
    LET ema_fast == ema(df, fast)
        ema_slow == ema(df, slow)
        macd_line == [i \in 1..Len(df) |-> RSub(ema_fast[i], ema_slow[i])]
        signal_line == Ewm(macd_line, signal)
        histogram == [i \in 1..Len(df) |-> RSub(macd_line[i], signal_line[i])]
    IN <<Entry(S_macd, macd_line), Entry(S_signal, signal_line),
         Entry(S_histogram, histogram)>>

\* the integer root of k, between lo and hi
RECURSIVE ISqrtIn(_, _, _)
ISqrtIn(k, lo, hi) ==
    IF lo = hi THEN lo
    ELSE LET mid == (lo + hi + 1) \div 2
         IN IF mid * mid <= k THEN ISqrtIn(k, mid, hi) ELSE ISqrtIn(k, lo, mid - 1)

\* the root of a float to the hundredth below (the float is no rational)
RSqrt(v) == IF v.d = 0 THEN v ELSE Rat(ISqrtIn((v.n * 10000) \div v.d, 0, 46340), 100)

RECURSIVE SumSquares(_, _, _, _)
SumSquares(df, from, to, mean) ==
    IF from > to THEN RInt(0)
    ELSE LET dev == RSub(RInt(df[to].close), mean)
         IN RAdd(RMul(dev, dev), SumSquares(df, from, to - 1, mean))

\* df['close'].rolling(window=period).std(): the sample deviation (ddof = 1),
\* undefined on the first period-1 bars and for a window of one bar
rolling_std(df, period) ==
    [i \in 1..Len(df) |->
        IF i < period \/ period < 2 THEN NaN
        ELSE LET mean == RDiv(SumClose(df, i - period + 1, i), RInt(period))
             IN RSqrt(RDiv(SumSquares(df, i - period + 1, i, mean), RInt(period - 1)))]

bollinger(df, period, std) ==
    LET middle == sma(df, period)
        std_dev == rolling_std(df, period)
        upper == [i \in 1..Len(df) |-> RAdd(middle[i], RMul(std_dev[i], std))]
        lower == [i \in 1..Len(df) |-> RSub(middle[i], RMul(std_dev[i], std))]
    IN <<Entry(S_upper, upper), Entry(S_middle, middle), Entry(S_lower, lower)>>

\* IndicatorEngine.calculate for the kinds the inputs use: SMA, MACD and
\* BOLLINGER (isdict: the result is a dict of series), or a kind that is
\* none of the seven known ones (ValueError)
calculate(df, indicator, params) ==
    IF Upper(indicator) = "SMA"
    THEN [raised |-> FALSE, isdict |-> FALSE,
          series |-> sma(df, ParamGet(params, "period", 20))]
    ELSE IF Upper(indicator) = "MACD"
    THEN [raised |-> FALSE, isdict |-> TRUE,
          series |-> macd(df, ParamGet(params, "fast", 12), ParamGet(params, "slow", 26),
                          ParamGet(params, "signal", 9))]
    ELSE IF Upper(indicator) = "BOLLINGER"
    THEN [raised |-> FALSE, isdict |-> TRUE,
          series |-> bollinger(df, ParamGet(params, "period", 20),
                               ParamGet(params, "std", RInt(2)))]
    ELSE [raised |-> TRUE, isdict |-> FALSE, series |-> <<>>]

\* indicators[block_id] = series on an insertion-ordered dict
DictSet(indicators, id, series) ==
    IF IndHas(indicators, id)
    THEN [k \in 1..Len(indicators) |->
             IF indicators[k].id = id THEN [id |-> id, series |-> series]
             ELSE indicators[k]]
    ELSE Append(indicators, [id |-> id, series |-> series])

\* for key, series in result.items(): indicators[f"{block_id}_{key}"] = series
RECURSIVE DictSetItems(_, _, _, _)
DictSetItems(indicators, block_id, result, k) ==
    IF k > Len(result) THEN indicators
    ELSE DictSetItems(DictSet(indicators, block_id \o <<"_">> \o result[k].key,
                              result[k].series),
                      block_id, result, k + 1)

\* `x or y` on what dict.get answers: None is false and gives y; a pandas
\* Series has no truth value, bool() of it is a ValueError
Or(x, y) ==
    IF x = None THEN [raised |-> FALSE, value |-> y]
    ELSE [raised |-> TRUE, value |-> None]

\* self.indicators[block_id] = main, main being what the `or` of the alias
\* line gave
StoreMain(items, block_id, main) ==
    IF main.raised
    THEN [raised |-> TRUE, indicators |-> items,
          error |-> "The truth value of a Series is ambiguous"]
    ELSE [raised |-> FALSE, error |-> None,
          indicators |-> DictSet(items, block_id, main.value.series)]

\* the body of the loop of _calculate_indicators for one block, result being
\* what calculate answered: a series is stored under the block id, the
\* series of a dict under id_<key> and then the main one under the id
StoreResult(indicators, block_id, result) ==
    IF result.raised
    THEN [raised |-> TRUE, indicators |-> indicators, error |-> "Unknown indicator"]
    ELSE IF result.isdict
    THEN StoreMain(DictSetItems(indicators, block_id, result.series, 1), block_id,
                   Or(DictGet(result.series, S_macd), DictGet(result.series, S_middle)))
    ELSE [raised |-> FALSE, error |-> None,
          indicators |-> DictSet(indicators, block_id, result.series)]

\* the loop of _calculate_indicators from block k on; an exception of
\* calculate or of the alias line leaves the loop
RECURSIVE CalculateFrom(_, _, _, _)
CalculateFrom(indicator_blocks, k, df, indicators) ==
    IF k > Len(indicator_blocks)
    THEN [raised |-> FALSE, indicators |-> indicators, error |-> None]
    ELSE LET block == indicator_blocks[k]
             stored == StoreResult(indicators, block.id,
                                   calculate(df, block.indicator, block.params))
         IN IF stored.raised THEN stored
            ELSE CalculateFrom(indicator_blocks, k + 1, df, stored.indicators)

CalculateIndicators(indicator_blocks, df) ==
    CalculateFrom(indicator_blocks, 1, df, <<>>)

\* _parse_strategy_blocks: the blocks of one type, in definition order
BlocksOfType(strategy, type) ==
    SelectSeq(strategy.blocks, LAMBDA block : block.type = type)

(***************************************************************************)
(* The backtest ledger (BacktestEngine): L = [cash, position, trades].     *)
(***************************************************************************)
\* a variant of _check_stop_loss that reads the bar's close, not its low
CheckStopLoss_OnClose(position, bar) ==
    IF position = None \/ ~Truthy(position.stopLoss) THEN FALSE
    ELSE RLe(RInt(bar.close), position.stopLoss)

\* _check_stop_loss
CheckStopLoss(position, bar) ==
    IF position = None \/ ~Truthy(position.stopLoss) THEN FALSE
    ELSE RLe(RInt(bar.low), position.stopLoss)

\* _check_take_profit
CheckTakeProfit(position, bar) ==
    IF position = None \/ ~Truthy(position.takeProfit) THEN FALSE
    ELSE RGe(RInt(bar.high), position.takeProfit)

OpenBuyPosition(L, price, timestamp, params) ==
    LET size_pct == ParamGet(params, "sizePct", Rat(1, 4))
        stop_loss_pct == ParamGet(params, "stopLossPct", Rat(1, 20))
        take_profit_pct == ParamGet(params, "takeProfitPct", Rat(1, 10))
        position_value == RMul(L.cash, size_pct)
        qty == RDiv(position_value, price)
    IN IF RLe(qty, RInt(0)) THEN L
       ELSE [L EXCEPT
                !.position =
                    [qty |-> qty,
                     avgPrice |-> price,
                     stopLoss |-> IF Truthy(stop_loss_pct)
                                  THEN RMul(price, RSub(RInt(1), stop_loss_pct))
                                  ELSE None,
                     takeProfit |-> IF Truthy(take_profit_pct)
                                    THEN RMul(price, RAdd(RInt(1), take_profit_pct))
                                    ELSE None,
                     entryTime |-> timestamp],
                !.cash = RSub(L.cash, position_value)]

\* a variant of _close_position that credits the cost of the position, not
\* the proceeds of the sale
ClosePosition_CostBasis(L, price, timestamp, reason, id) ==
    IF L.position = None THEN L
    ELSE LET qty == L.position.qty
             entry_price == L.position.avgPrice
             pnl == RSub(RMul(qty, price), RMul(qty, entry_price))
             trade == [id |-> id, symbol |-> "SYM", side |-> "BUY", qty |-> qty,
                       entryPrice |-> entry_price, exitPrice |-> price,
                       stopLoss |-> L.position.stopLoss,
                       takeProfit |-> L.position.takeProfit,
                       pnl |-> pnl,
                       pnlPct |-> RMul(RDiv(pnl, RMul(qty, entry_price)), RInt(100)),
                       exitReason |-> reason,
                       entryTime |-> L.position.entryTime, exitTime |-> timestamp]
         IN [cash |-> RAdd(L.cash, RMul(qty, entry_price)),
             position |-> None,
             trades |-> Append(L.trades, trade)]

\* _close_position; id is the uuid4 drawn for the trade record
ClosePosition(L, price, timestamp, reason, id) ==
    IF L.position = None THEN L
    ELSE LET qty == L.position.qty
             entry_price == L.position.avgPrice
             position_value == RMul(qty, price)
             pnl == RSub(position_value, RMul(qty, entry_price))
             pnl_pct == RMul(RDiv(pnl, RMul(qty, entry_price)), RInt(100))
             trade == [id |-> id,
                       symbol |-> "SYM",
                       side |-> "BUY",
                       qty |-> qty,
                       entryPrice |-> entry_price,
                       exitPrice |-> price,
                       stopLoss |-> L.position.stopLoss,
                       takeProfit |-> L.position.takeProfit,
                       pnl |-> pnl,
                       pnlPct |-> pnl_pct,
                       exitReason |-> reason,
                       entryTime |-> L.position.entryTime,
                       exitTime |-> timestamp]
         IN [cash |-> RAdd(L.cash, position_value),
             position |-> None,
             trades |-> Append(L.trades, trade)]

\* a variant of the loop body of _execute_actions whose BUY branch does not
\* look at the position
ExecuteActionBlock_Unguarded(L, action_block, bar, timestamp, id) ==
    IF action_block.action = "BUY"
    THEN OpenBuyPosition(L, RInt(bar.close), timestamp, action_block.params)
    ELSE IF action_block.action \in {"SELL", "EXIT_ALL"} /\ L.position # None
    THEN ClosePosition(L, RInt(bar.close), timestamp,
                       IF action_block.action = "SELL" THEN "logic" ELSE "exit-all", id)
    ELSE L

\* one iteration of the loop of _execute_actions
ExecuteActionBlock(L, action_block, bar, timestamp, id) ==
    LET action_type == action_block.action
        params == action_block.params
    IN IF action_type = "BUY" /\ L.position = None
       THEN OpenBuyPosition(L, RInt(bar.close), timestamp, params)
       ELSE IF action_type = "SELL" /\ L.position # None
       THEN ClosePosition(L, RInt(bar.close), timestamp, "logic", id)
       ELSE IF action_type = "EXIT_ALL" /\ L.position # None
       THEN ClosePosition(L, RInt(bar.close), timestamp, "exit-all", id)
       ELSE L

\* a variant of the equity sample that leaves the open position out
PortfolioValue_CashOnly(L, bar) == L.cash

\* the equity sample of a bar: cash plus the open position marked at its close
PortfolioValue(L, bar) ==
    IF L.position # None THEN RAdd(L.cash, RMul(L.position.qty, RInt(bar.close)))
    ELSE L.cash

(***************************************************************************)
(* Metrics.  round(x, 2) rounds half to even.  CAGR, the Sharpe ratio and  *)
(* the drawdown are real-valued (power, root) and carry no claim here;     *)
(* what raises in their computation is the division by initial_capital,    *)
(* which totalReturnPct shares.                                            *)
(***************************************************************************)
Floor(x) == x.n \div x.d

Round2(x) ==
    IF x.d = 0 THEN x ELSE
    LET y == RMul(x, RInt(100))
        f == Floor(y)
        rest == RSub(y, RInt(f))
        half == Rat(1, 2)
    IN IF RLt(rest, half) THEN Rat(f, 100)
       ELSE IF RGt(rest, half) THEN Rat(f + 1, 100)
       ELSE IF f % 2 = 0 THEN Rat(f, 100) ELSE Rat(f + 1, 100)

RECURSIVE SumPnl(_, _)
SumPnl(ts, k) == IF k = 0 THEN RInt(0) ELSE RAdd(ts[k].pnl, SumPnl(ts, k - 1))

\* the trades counted as winning
WinningTrades(trades) == SelectSeq(trades, LAMBDA t : RGt(t.pnl, RInt(0)))

\* a variant in which a trade without a gain is a losing trade
LosingTrades_NotWinning(trades) == SelectSeq(trades, LAMBDA t : RLe(t.pnl, RInt(0)))

\* the trades counted as losing
LosingTrades(trades) == SelectSeq(trades, LAMBDA t : RLt(t.pnl, RInt(0)))

\* a variant of _calculate_metrics without the branch for an empty equity
\* curve: equity_values[-1] of an empty list is an IndexError
CalculateMetrics_NoDefaults(equity_curve, trades, initial_capital) ==
    [raised |-> TRUE, metrics |-> None]

CalculateMetrics(equity_curve, trades, initial_capital) ==
    IF Len(equity_curve) = 0
    THEN [raised |-> FALSE,
          metrics |-> [totalReturnPct |-> RInt(0), cagr |-> RInt(0),
                       sharpeRatio |-> RInt(0), maxDrawdown |-> RInt(0),
                       winRate |-> RInt(0),
                       profitFactor |-> RInt(0), totalTrades |-> 0,
                       winningTrades |-> 0, losingTrades |-> 0,
                       avgWin |-> RInt(0), avgLoss |-> RInt(0),
                       finalValue |-> initial_capital]]
    ELSE IF initial_capital.n = 0
    THEN [raised |-> TRUE, metrics |-> None]  \* ZeroDivisionError
    ELSE LET final_value == equity_curve[Len(equity_curve)].value
             total_return ==
                 RMul(RDiv(RSub(final_value, initial_capital), initial_capital), RInt(100))
             winning_trades == WinningTrades(trades)
             losing_trades == LosingTrades(trades)
             win_rate == IF Len(trades) > 0
                         THEN RMul(Rat(Len(winning_trades), Len(trades)), RInt(100))
                         ELSE RInt(0)
             gross_profit == SumPnl(winning_trades, Len(winning_trades))
             sum_loss == SumPnl(losing_trades, Len(losing_trades))
             gross_loss == IF sum_loss.n < 0 THEN Rat(-sum_loss.n, sum_loss.d) ELSE sum_loss
             profit_factor == IF RGt(gross_loss, RInt(0)) THEN RDiv(gross_profit, gross_loss)
                              ELSE IF RGt(gross_profit, RInt(0)) THEN gross_profit
                              ELSE RInt(0)
             avg_win == IF Len(winning_trades) > 0
                        THEN RDiv(gross_profit, RInt(Len(winning_trades))) ELSE RInt(0)
             avg_loss == IF Len(losing_trades) > 0
                         THEN RDiv(gross_loss, RInt(Len(losing_trades))) ELSE RInt(0)
         IN [raised |-> FALSE,
             metrics |-> [totalReturnPct |-> Round2(total_return),
                          winRate |-> Round2(win_rate),
                          profitFactor |-> Round2(profit_factor),
                          totalTrades |-> Len(trades),
                          winningTrades |-> Len(winning_trades),
                          losingTrades |-> Len(losing_trades),
                          avgWin |-> Round2(avg_win),
                          avgLoss |-> Round2(avg_loss),
                          finalValue |-> Round2(final_value)]]

(***************************************************************************)
(* Inputs of a backtest: bar sequences and strategies.                     *)
(***************************************************************************)
Bar(h, l, c) == [high |-> h, low |-> l, close |-> c]

\* a position entered at 100 with the default 5% / 10% exits has its stop at
\* 95 and its target at 110: a quiet bar, a bar touching the stop, a bar
\* passing the target, a bar spanning both, a bar gapping below the stop
BarShapes ==
    {Bar(100, 100, 100), Bar(100, 95, 100), Bar(125, 100, 125),
     Bar(110, 95, 100), Bar(85, 80, 80)}

RECURSIVE SeqsUpTo(_, _)
SeqsUpTo(S, k) ==
    IF k = 0 THEN {<<>>}
    ELSE LET shorter == SeqsUpTo(S, k - 1)
         IN shorter \cup {Append(s, x) : s \in {t \in shorter : Len(t) = k - 1}, x \in S}

\* what the data source answers: nothing (None), or 0..MaxBars bars
DataFrames == {None} \cup {[bars |-> s] : s \in SeqsUpTo(BarShapes, MaxBars)}

IndicatorBlock(id, indicator, params) ==
    [type |-> "indicator", id |-> id, indicator |-> indicator, params |-> params]

ConditionBlock(expr) == [type |-> "condition", expr |-> expr]

ActionBlock(action, params) == [type |-> "action", action |-> action, params |-> params]

\* params without keys: every .get() answers its default
NoParams == [unused |-> 0]

\* close above / below 95, as comparisons on b1 = SMA(1) = close
Above95 == Cmp(B1, <<">">>, <<"9", "5">>)

Below95 == Cmp(B1, <<"<">>, <<"9", "5">>)

\* BUY a quarter of cash with the default exits, on the first bar above 95
StrategyBuyDefault ==
    [blocks |-> <<IndicatorBlock(B1, "SMA", [period |-> 1]),
                  ConditionBlock(Above95),
                  ActionBlock("BUY", NoParams)>>]

\* two crossover conditions sharing the action list BUY, SELL
StrategyCross ==
    [blocks |-> <<IndicatorBlock(B1, "sma", [period |-> 1]),
                  IndicatorBlock(B2, "SMA", [period |-> 2]),
                  ConditionBlock(XOver(B1, B2)),
                  ConditionBlock(XUnder(B1, B2)),
                  ActionBlock("BUY", [sizePct |-> RInt(1)]),
                  ActionBlock("SELL", NoParams)>>]

\* an empty expression, two comparisons that can both hold on no bar, and the
\* action list SELL, BUY (exits disabled), HOLD (no recognised kind)
StrategySellBuy ==
    [blocks |-> <<ConditionBlock(<<>>),
                  IndicatorBlock(B1, "SMA", [period |-> 1]),
                  ConditionBlock(Below95),
                  ConditionBlock(Cmp(B1, <<">", "=">>, <<"9", "6">>)),
                  ActionBlock("SELL", NoParams),
                  ActionBlock("BUY", [sizePct |-> Rat(1, 2), stopLossPct |-> RInt(0),
                                      takeProfitPct |-> RInt(0)]),
                  ActionBlock("HOLD", NoParams)>>]

\* two conditions true on the same bars; EXIT_ALL, then BUY with a stop only
StrategyExitAll ==
    [blocks |-> <<IndicatorBlock(B1, "SMA", [period |-> 1]),
                  IndicatorBlock(B2, "SMA", [period |-> 20]),
                  ConditionBlock(Cmp(B2, <<">">>, <<"0">>)),
                  ConditionBlock(Above95),
                  ConditionBlock(Cmp(B1, <<">">>, <<"8", "0">>)),
                  ActionBlock("EXIT_ALL", NoParams),
                  ActionBlock("BUY", [sizePct |-> RInt(1), takeProfitPct |-> RInt(0)])>>]

\* a condition that is a bare block id
StrategyBareId ==
    [blocks |-> <<IndicatorBlock(B1, "SMA", [period |-> 2]),
                  ConditionBlock(B1),
                  ActionBlock("BUY", NoParams)>>]

\* an indicator kind the engine does not know
StrategyUnknownIndicator ==
    [blocks |-> <<IndicatorBlock(B1, "SMA", [period |-> 1]),
                  IndicatorBlock(B2, "foo", NoParams),
                  ConditionBlock(Above95),
                  ActionBlock("BUY", NoParams)>>]

\* a condition and no action block; no block at all
StrategyNoAction ==
    [blocks |-> <<IndicatorBlock(B1, "SMA", [period |-> 1]), ConditionBlock(Above95)>>]

StrategyEmpty == [blocks |-> <<>>]

Strategies ==
    {StrategyBuyDefault, StrategyCross, StrategySellBuy, StrategyExitAll,
     StrategyBareId, StrategyUnknownIndicator, StrategyNoAction, StrategyEmpty}

\* str(uuid.uuid4()): any of the ids
UUIDs == {"u1", "u2"}

(***************************************************************************)
(* The forward driver (ForwardRunner) and the portfolio it trades into.    *)
(* A portfolio is P = [cash, holdings, trades, equity_curve]; holdings     *)
(* maps every symbol to its holding, or to None when the dict has no such  *)
(* key.  A fetched bar is [timestamp, close]: the driver reads nothing     *)
(* else of it.                                                             *)
(***************************************************************************)
Symbols == {"A", "B"}

\* Portfolio.__init__
NewPortfolio(initial_capital) ==
    [cash |-> initial_capital,
     holdings |-> [s \in Symbols |-> None],
     trades |-> <<>>,
     equity_curve |-> <<>>]

\* DataFrame.tail(n)
Tail_n(s, n) == IF Len(s) <= n THEN s ELSE SubSeq(s, Len(s) - n + 1, Len(s))

\* df[~df.index.duplicated(keep='last')]: of rows sharing a timestamp the
\* last one stays, the order of the rows is kept
DedupKeepLast(s) ==
    LET rows == [i \in 1..Len(s) |-> [i |-> i, bar |-> s[i]]]
        kept == SelectSeq(rows, LAMBDA row :
                    ~\E j \in (row.i + 1)..Len(s) : s[j].timestamp = row.bar.timestamp)
    IN [k \in 1..Len(kept) |-> kept[k].bar]

\* _update_market_data: window is data_windows.get(symbol) (None: no key),
\* fetched is what ticker.history answered, or that it raised
UpdateMarketData(window, fetched) ==
    IF fetched.raised THEN window
    ELSE IF Len(fetched.bars) = 0 THEN window
    ELSE IF window = None THEN [bars |-> DedupKeepLast(fetched.bars)]
    ELSE [bars |-> DedupKeepLast(Tail_n(window.bars \o fetched.bars, window_size))]

\* _get_current_price
GetCurrentPrice(window) ==
    IF window # None /\ Len(window.bars) > 0
    THEN RInt(window.bars[Len(window.bars)].close)
    ELSE None

\* str(uuid.uuid4()) in _open_position: an id no other trade of the portfolio
\* has, here the number of the trade
FreshTradeId(P) == Len(P.trades) + 1

\* Trade(...).to_dict() of a trade just opened
TradeDict(id, symbol, qty, price, stop_loss, take_profit, now) ==
    [tradeId |-> id,
     symbol |-> symbol,
     side |-> "BUY",
     quantity |-> qty,
     entryPrice |-> price,
     exitPrice |-> None,
     stopLoss |-> stop_loss,
     takeProfit |-> take_profit,
     status |-> "open",
     exitReason |-> None,
     pnl |-> RInt(0),
     pnlPct |-> RInt(0),
     entryTime |-> now,
     exitTime |-> None]

\* _open_position
OpenPosition(P, symbol, price, params, id, now) ==
    LET size_pct == ParamGet(params, "sizePct", Rat(1, 4))
        stop_loss_pct == ParamGet(params, "stopLossPct", Rat(1, 20))
        take_profit_pct == ParamGet(params, "takeProfitPct", Rat(1, 10))
        position_value == RMul(P.cash, size_pct)
        qty == RDiv(position_value, price)
        stop_loss == IF Truthy(stop_loss_pct)
                     THEN RMul(price, RSub(RInt(1), stop_loss_pct)) ELSE None
        take_profit == IF Truthy(take_profit_pct)
                       THEN RMul(price, RAdd(RInt(1), take_profit_pct)) ELSE None
    IN IF RLe(qty, RInt(0)) \/ RGt(position_value, P.cash) THEN P
       ELSE [P EXCEPT
                !.cash = RSub(P.cash, position_value),
                !.holdings[symbol] =
                    [qty |-> qty, avgPrice |-> price, currentPrice |-> price,
                     pnl |-> RInt(0), pnlPct |-> RInt(0),
                     stopLoss |-> stop_loss, takeProfit |-> take_profit],
                !.trades = Append(@, TradeDict(id, symbol, qty, price,
                                               stop_loss, take_profit, now))]

\* sum of qty * currentPrice over the holdings
RECURSIVE HoldingsValue(_, _)
HoldingsValue(holdings, S) ==
    IF S = {} THEN RInt(0)
    ELSE LET s == CHOOSE x \in S : TRUE
             rest == HoldingsValue(holdings, S \ {s})
         IN IF holdings[s] = None THEN rest
            ELSE RAdd(RMul(holdings[s].qty, holdings[s].currentPrice), rest)

\* the first trade dict of the symbol with status 'open' (0: none)
FirstOpenTrade(trades, symbol) ==
    LET open == {k \in 1..Len(trades) :
                    trades[k].symbol = symbol /\ trades[k].status = "open"}
    IN IF open = {} THEN 0 ELSE CHOOSE k \in open : \A j \in open : k <= j

\* ForwardRunner._close_position
FWClosePosition(P, symbol, price, reason, now) ==
    IF P.holdings[symbol] = None THEN P
    ELSE LET holding == P.holdings[symbol]
             qty == holding.qty
             entry_price == holding.avgPrice
             position_value == RMul(qty, price)
             pnl == RSub(position_value, RMul(qty, entry_price))
             cash == RAdd(P.cash, position_value)
             holdings == [P.holdings EXCEPT ![symbol] = None]
             k == FirstOpenTrade(P.trades, symbol)
             trades == IF k = 0 THEN P.trades
                       ELSE [P.trades EXCEPT
                                ![k].status = "closed",
                                ![k].exitPrice = price,
                                ![k].exitReason = reason,
                                ![k].pnl = pnl,
                                ![k].pnlPct = RMul(RDiv(pnl, RMul(qty, entry_price)),
                                                   RInt(100)),
                                ![k].exitTime = now]
         IN [cash |-> cash,
             holdings |-> holdings,
             trades |-> trades,
             equity_curve |-> Append(P.equity_curve,
                                     [timestamp |-> now,
                                      value |-> RAdd(cash, HoldingsValue(holdings, Symbols))])]

\* _check_exit_conditions: the exit its checks decide on ("none": no close),
\* and the portfolio it leaves
ExitDecision(P, symbol, window) ==
    LET holding == P.holdings[symbol]
        current_price == GetCurrentPrice(window)
    IN IF P = None THEN "none"
       ELSE IF holding = None THEN "none"
       ELSE IF ~Truthy(current_price) THEN "none"
       ELSE IF Truthy(holding.stopLoss) /\ RLe(current_price, holding.stopLoss)
            THEN "stop-loss"
       ELSE IF Truthy(holding.takeProfit) /\ RGe(current_price, holding.takeProfit)
            THEN "take-profit"
       ELSE "none"

CheckExitConditions(P, symbol, window, now) ==
    IF P = None THEN P
    ELSE IF P.holdings[symbol] = None \/ ~Truthy(GetCurrentPrice(window)) THEN P
    ELSE LET holding == P.holdings[symbol]
             current_price == GetCurrentPrice(window)
             diff == RSub(current_price, holding.avgPrice)
             marked == [P EXCEPT
                           !.holdings[symbol].currentPrice = current_price,
                           !.holdings[symbol].pnl = RMul(diff, holding.qty),
                           !.holdings[symbol].pnlPct =
                               RMul(RDiv(diff, holding.avgPrice), RInt(100))]
             decision == ExitDecision(P, symbol, window)
         IN IF decision = "none" THEN marked
            ELSE FWClosePosition(marked, symbol, current_price, decision, now)

\* one iteration of the loop of ForwardRunner._execute_actions; has_position
\* is the value read before the loop
FWExecuteActionBlock(P, action_block, symbol, price, has_position, id, now) ==
    LET action_type == action_block.action
        params == action_block.params
    IN IF action_type = "BUY" /\ ~has_position
       THEN OpenPosition(P, symbol, price, params, id, now)
       ELSE IF action_type = "SELL" /\ has_position
       THEN FWClosePosition(P, symbol, price, "logic", now)
       ELSE IF action_type = "EXIT_ALL" /\ has_position
       THEN FWClosePosition(P, symbol, price, "exit-all", now)
       ELSE P

(***************************************************************************)
(* Inputs of a forward run: what the data source answers to one fetch, and *)
(* deployed strategies.                                                    *)
(***************************************************************************)
\* closes: a position entered at 100 with the default exits has its stop at
\* 95 and its target at 110
Closes == {50, 100, 200}

\* ticker.history(...) after the window it is merged into: it raises, or
\* answers no bar, or the latest bar, which is the bar the window ends with
\* (its close has moved on) or the one after it
Fetched(raised, bars) == [raised |-> raised, bars |-> bars]

LatestTimestamps(window) ==
    IF window = None THEN {1}
    ELSE LET last == window.bars[Len(window.bars)].timestamp
         IN {last, last + 1} \cap (1..MaxTs)

Fetches(window) ==
    {Fetched(TRUE, <<>>), Fetched(FALSE, <<>>)}
    \cup {Fetched(FALSE, <<[timestamp |-> t, close |-> c]>>) :
              t \in LatestTimestamps(window), c \in Closes}

Above150 == Cmp(B1, <<">">>, <<"1", "5", "0">>)

Above40 == Cmp(B1, <<">">>, <<"4", "0">>)

Deployed(symbols, blocks) == [symbols |-> symbols, blocks |-> blocks]

\* two BUY blocks under one condition
DeployBuyBuy ==
    Deployed(<<"A">>,
             <<IndicatorBlock(B1, "SMA", [period |-> 1]),
               ConditionBlock(Above95),
               ActionBlock("BUY", NoParams),
               ActionBlock("BUY", NoParams)>>)

\* an empty expression and three comparisons of which several hold
\* together; EXIT_ALL, BUY with a stop only, HOLD (no recognised kind)
DeployExitAll ==
    Deployed(<<"B">>,
             <<ConditionBlock(<<>>),
               IndicatorBlock(B1, "SMA", [period |-> 1]),
               ConditionBlock(Above150),
               ConditionBlock(Above95),
               ConditionBlock(Above40),
               ActionBlock("EXIT_ALL", NoParams),
               ActionBlock("BUY", [sizePct |-> Rat(1, 2), takeProfitPct |-> RInt(0)]),
               ActionBlock("HOLD", NoParams)>>)

\* BUY everything without exits, SELL; the first condition never holds
DeployBuySell ==
    Deployed(<<"A">>,
             <<IndicatorBlock(B1, "SMA", [period |-> 1]),
               ConditionBlock(Cmp(B1, <<"<">>, <<"0">>)),
               ConditionBlock(Above40),
               ActionBlock("BUY", [sizePct |-> RInt(1), stopLossPct |-> RInt(0),
                                   takeProfitPct |-> RInt(0)]),
               ActionBlock("SELL", NoParams)>>)

\* two symbols trading into the one portfolio, half of the cash each time
DeployTwoSymbols ==
    Deployed(<<"A", "B">>,
             <<IndicatorBlock(B1, "SMA", [period |-> 1]),
               ConditionBlock(Above95),
               ActionBlock("BUY", [sizePct |-> Rat(1, 2)])>>)

\* an indicator kind the engine does not know
DeployUnknownIndicator ==
    Deployed(<<"A">>,
             <<IndicatorBlock(B1, "SMA", [period |-> 1]),
               IndicatorBlock(B2, "foo", NoParams),
               ConditionBlock(Above95),
               ActionBlock("BUY", NoParams)>>)

\* a condition and no action block
DeployNoAction ==
    Deployed(<<"A">>,
             <<IndicatorBlock(B1, "SMA", [period |-> 1]), ConditionBlock(Above95)>>)

\* no symbol and no block
DeployEmpty == Deployed(<<>>, <<>>)

Deployments ==
    {DeployBuyBuy, DeployExitAll, DeployBuySell, DeployTwoSymbols,
     DeployUnknownIndicator, DeployNoAction, DeployEmpty}

(***************************************************************************)
(* State.                                                                  *)
(***************************************************************************)
\* one call of ConditionEvaluator.evaluate
VARIABLES ce_expr, ce_indicators, ce_idx, ce_result, ce_pc

\* one BacktestEngine: constructor arguments and what the data source
\* answers (bt_df), the trading state, the block lists, the loop positions
\* (bar idx, condition block bt_ci, action block bt_ai), the returned dict,
\* and bt_log, the events of the bar being processed
VARIABLES bt_strategy, bt_df, bt_initial_capital,
          bt_cash, bt_position, bt_trades, bt_equity_curve,
          bt_indicators, bt_indicator_blocks, bt_condition_blocks, bt_action_blocks,
          bt_idx, bt_ci, bt_ai, bt_pc, bt_result, bt_log

\* what an earlier call of run_backtest with the same strategy, bars and
\* capital returned (None: there was no earlier call)
VARIABLE bt_previous

ceVars == <<ce_expr, ce_indicators, ce_idx, ce_result, ce_pc>>

btInputs == <<bt_strategy, bt_df, bt_initial_capital>>

btBlocks == <<bt_indicator_blocks, bt_condition_blocks, bt_action_blocks>>

btLedger == <<bt_cash, bt_position, bt_trades>>

btVars == <<btInputs, btLedger, bt_equity_curve, bt_indicators, btBlocks,
            bt_idx, bt_ci, bt_ai, bt_pc, bt_result, bt_log, bt_previous>>

\* one ForwardRunner and the portfolio portfolios_db holds under its
\* portfolio_id (None: no such portfolio): the runner's fields, the worker's
\* position in _run_loop (symbol fw_si, condition block fw_ci, action block
\* fw_ai, the has_position and price of _execute_actions), the number of
\* polling cycles begun, and fw_log, the events of the symbol being processed
\* (the first of them tells how many bars the data source answered)
VARIABLES fw_strategy, fw_portfolio, fw_is_running, fw_data_windows, fw_indicators,
          fw_indicator_blocks, fw_condition_blocks, fw_action_blocks,
          fw_si, fw_ci, fw_ai, fw_has_position, fw_price, fw_cycle, fw_pc, fw_log

fwBlocks == <<fw_indicator_blocks, fw_condition_blocks, fw_action_blocks>>

fwData == <<fw_data_windows, fw_indicators>>

fwVars == <<fw_strategy, fw_portfolio, fw_is_running, fwData, fwBlocks,
            fw_si, fw_ci, fw_ai, fw_has_position, fw_price, fw_cycle, fw_pc, fw_log>>

\* two ForwardRunner workers at work on one symbol of one portfolio, each
\* in _execute_actions for one action block: the portfolio they share, and
\* per worker its action block, the price of its latest bar, its position in
\* the code, the has_position it read, and the cash and the holding it read
\* from the portfolio
VARIABLES tw_portfolio, tw_action_block, tw_price, tw_pc, tw_has_position, tw_read

twVars == <<tw_portfolio, tw_action_block, tw_price, tw_pc, tw_has_position, tw_read>>

\* the ForwardRunner objects constructed (a runner is its position in
\* runners), the worker threads started (each with the runner whose
\* _run_loop it executes and its position in the loop), the registry
\* active_runners, the thread that calls the functions of the module, and
\* the number of calls it has made
VARIABLES runners, threads, active_runners, caller, calls

arVars == <<runners, threads, active_runners, caller, calls>>

vars == <<ceVars, btVars, fwVars, twVars, arVars>>

\* the state an operation of one part leaves alone
outsideCE == <<btVars, fwVars, twVars, arVars>>

outsideBT == <<ceVars, fwVars, twVars, arVars>>

outsideFW == <<ceVars, btVars, twVars, arVars>>

outsideTW == <<ceVars, btVars, fwVars, arVars>>

outsideAR == <<ceVars, btVars, fwVars, twVars>>

(***************************************************************************)
(* ConditionEvaluator.evaluate as an operation of its own.                 *)
(***************************************************************************)
CEInit ==
    /\ ce_expr \in CondExprs
    /\ ce_indicators \in IndicatorMaps
    /\ ce_idx \in 0..MaxSeries
    /\ ce_result = None
    /\ ce_pc = "call"

CEIdle ==
    /\ ce_expr = <<>>
    /\ ce_indicators = <<>>
    /\ ce_idx = 0
    /\ ce_result = None
    /\ ce_pc = "idle"

\* evaluate(condition_expr, indicators, current_idx) returns
CEEvaluate ==
    /\ ce_pc = "call"
    /\ ce_result' = Evaluate(ce_expr, ce_indicators, ce_idx)
    /\ ce_pc' = "return"
    /\ UNCHANGED <<ce_expr, ce_indicators, ce_idx>>
    /\ UNCHANGED outsideCE

(***************************************************************************)
(* BacktestEngine.run, step by step.  An exception anywhere in run is      *)
(* caught by its `except Exception` and returned as a failed result.       *)
(***************************************************************************)
\* BacktestEngine.__init__
BTConstructed ==
    /\ bt_cash = bt_initial_capital
    /\ bt_position = None
    /\ bt_trades = <<>>
    /\ bt_equity_curve = <<>>
    /\ bt_indicators = <<>>
    /\ bt_indicator_blocks = <<>>
    /\ bt_condition_blocks = <<>>
    /\ bt_action_blocks = <<>>
    /\ bt_idx = 0
    /\ bt_ci = 0
    /\ bt_ai = 0
    /\ bt_result = None
    /\ bt_log = <<>>

\* the runs: every strategy on the capital 100, one of them on no capital
Scenarios ==
    {<<s, RInt(100)>> : s \in Strategies} \cup {<<StrategyBuyDefault, RInt(0)>>}

BTInit ==
    /\ \E sc \in Scenarios : bt_strategy = sc[1] /\ bt_initial_capital = sc[2]
    /\ bt_df \in DataFrames
    /\ BTConstructed
    /\ bt_pc = "fetch"
    /\ bt_previous = None

BTIdle ==
    /\ bt_strategy = StrategyEmpty
    /\ bt_initial_capital = RInt(0)
    /\ bt_df = None
    /\ BTConstructed
    /\ bt_pc = "idle"
    /\ bt_previous = None

BTLedger == [cash |-> bt_cash, position |-> bt_position, trades |-> bt_trades]

BTSetLedger(L) ==
    /\ bt_cash' = L.cash
    /\ bt_position' = L.position
    /\ bt_trades' = L.trades

\* a variant of run without its except clause: the exception leaves run
BTFail_Reraise(error) ==
    /\ bt_result' = bt_result
    /\ bt_pc' = "raised"

\* the except clause of run
BTFail(error) ==
    /\ bt_result' = [status |-> "failed", error |-> error]
    /\ bt_pc' = "done"

\* bt_log entries: a call of _close_position on an open position, with the
\* price and the reason the caller passes; a position that was opened
CloseEvent(price, reason) == [e |-> "close", price |-> price, reason |-> reason]

OpenEvents(L, M) ==
    IF L.position = None /\ M.position # None THEN <<[e |-> "open"]>> ELSE <<>>

\* 1. fetch: no data is a ValueError
BTFetch ==
    /\ bt_pc = "fetch"
    /\ IF bt_df = None \/ Len(bt_df.bars) = 0
       THEN /\ BTFail("No historical data available")
       ELSE /\ bt_pc' = "parse"
            /\ UNCHANGED bt_result
    /\ UNCHANGED <<btInputs, btLedger, bt_equity_curve, bt_indicators, btBlocks,
                   bt_idx, bt_ci, bt_ai, bt_log>>
    /\ UNCHANGED <<bt_previous, outsideBT>>

\* 2. _parse_strategy_blocks
BTParse ==
    /\ bt_pc = "parse"
    /\ bt_indicator_blocks' = BlocksOfType(bt_strategy, "indicator")
    /\ bt_condition_blocks' = BlocksOfType(bt_strategy, "condition")
    /\ bt_action_blocks' = BlocksOfType(bt_strategy, "action")
    /\ bt_pc' = "indicators"
    /\ UNCHANGED <<btInputs, btLedger, bt_equity_curve, bt_indicators,
                   bt_idx, bt_ci, bt_ai, bt_result, bt_log>>
    /\ UNCHANGED <<bt_previous, outsideBT>>

\* 3. _calculate_indicators
BTCalculateIndicators ==
    /\ bt_pc = "indicators"
    /\ LET r == CalculateIndicators(bt_indicator_blocks, bt_df.bars)
       IN IF r.raised
          THEN /\ BTFail(r.error)
               /\ bt_indicators' = r.indicators
          ELSE /\ bt_indicators' = r.indicators
               /\ bt_pc' = "bar"
               /\ UNCHANGED bt_result
    /\ UNCHANGED <<btInputs, btLedger, bt_equity_curve, btBlocks,
                   bt_idx, bt_ci, bt_ai, bt_log>>
    /\ UNCHANGED <<bt_previous, outsideBT>>

\* 4. _simulate_bars, the top of one iteration: the equity sample, then the
\* stop-loss and the take-profit check, each closing and going on to the
\* next bar; otherwise on to the condition blocks
BTBar ==
    /\ bt_pc = "bar"
    /\ bt_idx < Len(bt_df.bars)
    /\ LET bar == bt_df.bars[bt_idx + 1]
           timestamp == bt_idx
           sample == [timestamp |-> timestamp, value |-> PortfolioValue(BTLedger, bar)]
           start == [e |-> "bar", idx |-> bt_idx, position |-> bt_position]
           stop == bt_position # None /\ CheckStopLoss(bt_position, bar)
           target == bt_position # None /\ ~stop /\ CheckTakeProfit(bt_position, bar)
       IN /\ bt_equity_curve' = Append(bt_equity_curve, sample)
          /\ IF stop \/ target
             THEN \E id \in UUIDs :
                    LET M == IF stop
                             THEN ClosePosition(BTLedger, bt_position.stopLoss,
                                                timestamp, "stop-loss", id)
                             ELSE ClosePosition(BTLedger, bt_position.takeProfit,
                                                timestamp, "take-profit", id)
                    IN /\ BTSetLedger(M)
                       /\ bt_log' = <<start,
                                      IF stop THEN CloseEvent(bt_position.stopLoss, "stop-loss")
                                      ELSE CloseEvent(bt_position.takeProfit, "take-profit")>>
                       /\ bt_idx' = bt_idx + 1
                       /\ UNCHANGED <<bt_pc, bt_ci>>
             ELSE /\ UNCHANGED btLedger
                  /\ bt_log' = <<start>>
                  /\ IF Len(bt_condition_blocks) = 0
                     THEN bt_idx' = bt_idx + 1 /\ UNCHANGED <<bt_pc, bt_ci>>
                     ELSE bt_pc' = "conds" /\ bt_ci' = 1 /\ UNCHANGED bt_idx
    /\ UNCHANGED <<btInputs, bt_indicators, btBlocks, bt_ai, bt_result>>
    /\ UNCHANGED <<bt_previous, outsideBT>>

\* the condition loop leaves block bt_ci without a match
BTNextCondition ==
    IF bt_ci = Len(bt_condition_blocks)
    THEN bt_pc' = "bar" /\ bt_idx' = bt_idx + 1 /\ UNCHANGED bt_ci
    ELSE bt_ci' = bt_ci + 1 /\ UNCHANGED <<bt_pc, bt_idx>>

\* one iteration of the condition loop
BTEvaluateCondition ==
    /\ bt_pc = "conds"
    /\ LET condition_expr == bt_condition_blocks[bt_ci].expr
           value == Evaluate(condition_expr, bt_indicators, bt_idx)
       IN IF Len(condition_expr) = 0
          THEN /\ BTNextCondition
               /\ UNCHANGED <<bt_ai, bt_log>>
          ELSE IF PyTruthy(value)
          THEN /\ bt_log' = bt_log \o <<[e |-> "eval", ci |-> bt_ci, value |-> value],
                                        [e |-> "exec", ci |-> bt_ci]>>
               /\ IF Len(bt_action_blocks) = 0
                  THEN bt_pc' = "bar" /\ bt_idx' = bt_idx + 1 /\ UNCHANGED bt_ai
                  ELSE bt_pc' = "actions" /\ bt_ai' = 1 /\ UNCHANGED bt_idx
               /\ UNCHANGED bt_ci
          ELSE /\ bt_log' = Append(bt_log, [e |-> "eval", ci |-> bt_ci, value |-> value])
               /\ BTNextCondition
               /\ UNCHANGED bt_ai
    /\ UNCHANGED <<btInputs, btLedger, bt_equity_curve, bt_indicators, btBlocks, bt_result>>
    /\ UNCHANGED <<bt_previous, outsideBT>>

\* a variant of the action loop after which the condition loop does not
\* break but goes on to the next condition block
BTExecuteAction_NoBreak ==
    /\ bt_pc = "actions"
    /\ LET action_block == bt_action_blocks[bt_ai]
           bar == bt_df.bars[bt_idx + 1]
           closes == action_block.action \in {"SELL", "EXIT_ALL"} /\ bt_position # None
       IN \E id \in IF closes THEN UUIDs ELSE {"none"} :
            LET M == ExecuteActionBlock(BTLedger, action_block, bar, bt_idx, id)
            IN /\ BTSetLedger(M)
               /\ bt_log' = (bt_log \o <<[e |-> "action", ai |-> bt_ai]>>)
                                \o (IF closes
                                    THEN <<CloseEvent(RInt(bar.close),
                                                      IF action_block.action = "SELL"
                                                      THEN "logic" ELSE "exit-all")>>
                                    ELSE OpenEvents(BTLedger, M))
    /\ IF bt_ai < Len(bt_action_blocks)
       THEN bt_ai' = bt_ai + 1 /\ UNCHANGED <<bt_pc, bt_idx, bt_ci>>
       ELSE IF bt_ci = Len(bt_condition_blocks)
       THEN bt_pc' = "bar" /\ bt_idx' = bt_idx + 1 /\ UNCHANGED <<bt_ai, bt_ci>>
       ELSE bt_pc' = "conds" /\ bt_ci' = bt_ci + 1 /\ UNCHANGED <<bt_ai, bt_idx>>
    /\ UNCHANGED <<btInputs, bt_equity_curve, bt_indicators, btBlocks, bt_result>>
    /\ UNCHANGED <<bt_previous, outsideBT>>

\* one iteration of the loop of _execute_actions; after the last block the
\* condition loop breaks
BTExecuteAction ==
    /\ bt_pc = "actions"
    /\ LET action_block == bt_action_blocks[bt_ai]
           bar == bt_df.bars[bt_idx + 1]
           closes == action_block.action \in {"SELL", "EXIT_ALL"} /\ bt_position # None
       IN \E id \in IF closes THEN UUIDs ELSE {"none"} :
            LET M == ExecuteActionBlock(BTLedger, action_block, bar, bt_idx, id)
            IN /\ BTSetLedger(M)
               /\ bt_log' = (bt_log \o <<[e |-> "action", ai |-> bt_ai]>>)
                                \o (IF closes
                                    THEN <<CloseEvent(RInt(bar.close),
                                                      IF action_block.action = "SELL"
                                                      THEN "logic" ELSE "exit-all")>>
                                    ELSE OpenEvents(BTLedger, M))
    /\ IF bt_ai = Len(bt_action_blocks)
       THEN bt_pc' = "bar" /\ bt_idx' = bt_idx + 1 /\ UNCHANGED bt_ai
       ELSE bt_ai' = bt_ai + 1 /\ UNCHANGED <<bt_pc, bt_idx>>
    /\ UNCHANGED <<btInputs, bt_equity_curve, bt_indicators, btBlocks, bt_ci, bt_result>>
    /\ UNCHANGED <<bt_previous, outsideBT>>

\* a variant of the end of run that leaves an open position open
BTFinalClose_Skip ==
    /\ bt_pc = "bar"
    /\ bt_idx = Len(bt_df.bars)
    /\ bt_pc' = "metrics"
    /\ UNCHANGED <<btInputs, btLedger, bt_equity_curve, bt_indicators, btBlocks,
                   bt_idx, bt_ci, bt_ai, bt_result, bt_log>>
    /\ UNCHANGED <<bt_previous, outsideBT>>

\* 5. after the last bar: close any open position at the last close
BTFinalClose ==
    /\ bt_pc = "bar"
    /\ bt_idx = Len(bt_df.bars)
    /\ LET last_close == RInt(bt_df.bars[Len(bt_df.bars)].close)
       IN IF bt_position # None
          THEN /\ \E id \in UUIDs :
                    BTSetLedger(ClosePosition(BTLedger, last_close, Len(bt_df.bars) - 1,
                                              "end-of-backtest", id))
               /\ bt_log' = Append(bt_log, CloseEvent(last_close, "end-of-backtest"))
          ELSE UNCHANGED <<btLedger, bt_log>>
    /\ bt_pc' = "metrics"
    /\ UNCHANGED <<btInputs, bt_equity_curve, bt_indicators, btBlocks,
                   bt_idx, bt_ci, bt_ai, bt_result>>
    /\ UNCHANGED <<bt_previous, outsideBT>>

\* 6. _calculate_metrics and the returned dict
BTMetrics ==
    /\ bt_pc = "metrics"
    /\ LET r == CalculateMetrics(bt_equity_curve, bt_trades, bt_initial_capital)
       IN IF r.raised
          THEN BTFail("division by zero")
          ELSE /\ bt_result' = [status |-> "completed",
                                equityCurve |-> bt_equity_curve,
                                trades |-> bt_trades,
                                metrics |-> r.metrics]
               /\ bt_pc' = "done"
    /\ UNCHANGED <<btInputs, btLedger, bt_equity_curve, bt_indicators, btBlocks,
                   bt_idx, bt_ci, bt_ai, bt_log>>
    /\ UNCHANGED <<bt_previous, outsideBT>>

\* run_backtest called once more with the same arguments: a new engine,
\* constructed as the first was, and the data source answering the same bars
BTRunAgain ==
    /\ bt_pc = "done"
    /\ bt_previous = None
    /\ bt_previous' = bt_result
    /\ bt_cash' = bt_initial_capital
    /\ bt_position' = None
    /\ bt_trades' = <<>>
    /\ bt_equity_curve' = <<>>
    /\ bt_indicators' = <<>>
    /\ bt_indicator_blocks' = <<>>
    /\ bt_condition_blocks' = <<>>
    /\ bt_action_blocks' = <<>>
    /\ bt_idx' = 0
    /\ bt_ci' = 0
    /\ bt_ai' = 0
    /\ bt_result' = None
    /\ bt_log' = <<>>
    /\ bt_pc' = "fetch"
    /\ UNCHANGED btInputs
    /\ UNCHANGED outsideBT

BTNext ==
    \/ BTFetch
    \/ BTParse
    \/ BTCalculateIndicators
    \/ BTBar
    \/ BTEvaluateCondition
    \/ BTExecuteAction
    \/ BTFinalClose
    \/ BTMetrics

(***************************************************************************)
(* ForwardRunner: construction, start, stop, and the worker thread's       *)
(* _run_loop step by step.  Clock readings are the number of the polling   *)
(* cycle.                                                                  *)
(***************************************************************************)
\* ForwardRunner.__init__ (it parses the blocks)
FWConstructed ==
    /\ fw_is_running = FALSE
    /\ fw_data_windows = [s \in Symbols |-> None]
    /\ fw_indicators = [s \in Symbols |-> None]
    /\ fw_indicator_blocks = BlocksOfType(fw_strategy, "indicator")
    /\ fw_condition_blocks = BlocksOfType(fw_strategy, "condition")
    /\ fw_action_blocks = BlocksOfType(fw_strategy, "action")
    /\ fw_si = 0
    /\ fw_ci = 0
    /\ fw_ai = 0
    /\ fw_has_position = FALSE
    /\ fw_price = None
    /\ fw_cycle = 0
    /\ fw_log = <<>>

\* the deployments: every strategy on a fresh portfolio of 100, one of them
\* under a portfolio id portfolios_db does not hold
FWScenarios ==
    {<<s, NewPortfolio(RInt(100))>> : s \in Deployments} \cup {<<DeployBuyBuy, None>>}

FWInit ==
    /\ \E sc \in FWScenarios : fw_strategy = sc[1] /\ fw_portfolio = sc[2]
    /\ FWConstructed
    /\ fw_pc = "new"

FWIdle ==
    /\ fw_strategy = DeployEmpty
    /\ fw_portfolio = None
    /\ FWConstructed
    /\ fw_pc = "idle"

\* the symbol the worker is processing
FWSymbol == fw_strategy.symbols[fw_si]

\* the for loop over self.symbols goes on; after the last symbol the worker
\* sleeps for the polling interval: the cycle is over
FWNextSymbol ==
    IF fw_si = Len(fw_strategy.symbols)
    THEN fw_pc' = "sleep" /\ fw_cycle' = fw_cycle + 1 /\ UNCHANGED fw_si
    ELSE fw_pc' = "update" /\ fw_si' = fw_si + 1 /\ UNCHANGED fw_cycle

\* start()
FWStart ==
    /\ fw_pc = "new"
    /\ ~fw_is_running
    /\ fw_is_running' = TRUE
    /\ fw_pc' = "loop"
    /\ UNCHANGED <<fw_strategy, fw_portfolio, fwData, fwBlocks, fw_si, fw_ci, fw_ai,
                   fw_has_position, fw_price, fw_cycle, fw_log>>
    /\ UNCHANGED outsideFW

\* stop(), from another thread, while the worker is anywhere in its loop
FWStop ==
    /\ fw_is_running
    /\ fw_is_running' = FALSE
    /\ UNCHANGED <<fw_strategy, fw_portfolio, fwData, fwBlocks, fw_si, fw_ci, fw_ai,
                   fw_has_position, fw_price, fw_cycle, fw_pc, fw_log>>
    /\ UNCHANGED outsideFW

\* a variant of _run_loop without its except clause: the exception ends
\* the worker thread
FWExcept_Reraise ==
    /\ fw_pc' = "stopped"
    /\ fw_cycle' = fw_cycle + 1

\* the except clause of _run_loop: the cycle is over and the worker sleeps
\* for the error delay
FWExcept ==
    /\ fw_pc' = "backoff"
    /\ fw_cycle' = fw_cycle + 1

\* _get_sleep_interval
GetSleepInterval(timeframe) ==
    CASE timeframe = "1m" -> 60
      [] timeframe = "5m" -> 300
      [] timeframe = "15m" -> 900
      [] timeframe = "1h" -> 3600
      [] timeframe = "1d" -> 300
      [] OTHER -> 300

\* strategy.get('timeframe', '1d')
Timeframe(strategy) ==
    IF "timeframe" \in DOMAIN strategy THEN strategy.timeframe ELSE "1d"

\* the seconds of the time.sleep the worker is in (0: it is not sleeping)
SleepSeconds ==
    CASE fw_pc = "sleep" -> GetSleepInterval(Timeframe(fw_strategy))
      [] fw_pc = "backoff" -> ErrorDelay
      [] OTHER -> 0

\* time.sleep returns, at the end of the try block or of the except clause
FWWake ==
    /\ fw_pc \in {"sleep", "backoff"}
    /\ fw_pc' = "loop"
    /\ UNCHANGED <<fw_strategy, fw_portfolio, fw_is_running, fwData, fwBlocks,
                   fw_si, fw_ci, fw_ai, fw_has_position, fw_price, fw_cycle, fw_log>>
    /\ UNCHANGED outsideFW

\* a variant of the loop test that does not read the running flag
FWLoop_WhileTrue ==
    /\ fw_pc = "loop"
    /\ fw_cycle < MaxCycles
    /\ IF Len(fw_strategy.symbols) = 0
       THEN fw_pc' = "sleep" /\ fw_cycle' = fw_cycle + 1 /\ UNCHANGED fw_si
       ELSE fw_pc' = "update" /\ fw_si' = 1 /\ UNCHANGED fw_cycle
    /\ UNCHANGED <<fw_strategy, fw_portfolio, fw_is_running, fwData, fwBlocks,
                   fw_ci, fw_ai, fw_has_position, fw_price, fw_log>>
    /\ UNCHANGED outsideFW

\* `while self.is_running:` and the start of the for loop
FWLoop ==
    /\ fw_pc = "loop"
    /\ IF ~fw_is_running
       THEN fw_pc' = "stopped" /\ UNCHANGED <<fw_si, fw_cycle>>
       ELSE /\ fw_cycle < MaxCycles
            /\ IF Len(fw_strategy.symbols) = 0
               THEN fw_pc' = "sleep" /\ fw_cycle' = fw_cycle + 1 /\ UNCHANGED fw_si
               ELSE fw_pc' = "update" /\ fw_si' = 1 /\ UNCHANGED fw_cycle
    /\ UNCHANGED <<fw_strategy, fw_portfolio, fw_is_running, fwData, fwBlocks,
                   fw_ci, fw_ai, fw_has_position, fw_price, fw_log>>
    /\ UNCHANGED outsideFW

\* 1. _update_market_data
FWUpdateMarketData ==
    /\ fw_pc = "update"
    /\ \E fetched \in Fetches(fw_data_windows[FWSymbol]) :
          LET window == UpdateMarketData(fw_data_windows[FWSymbol], fetched)
          IN /\ fw_data_windows' = [fw_data_windows EXCEPT ![FWSymbol] = window]
             /\ fw_log' = <<[e |-> "symbol", symbol |-> FWSymbol,
                             bars |-> Len(fetched.bars),
                             idx |-> IF window = None THEN -1 ELSE Len(window.bars) - 1,
                             position |-> IF fw_portfolio = None THEN None
                                          ELSE fw_portfolio.holdings[FWSymbol]]>>
    /\ fw_pc' = "indicators"
    /\ UNCHANGED <<fw_strategy, fw_portfolio, fw_is_running, fw_indicators, fwBlocks,
                   fw_si, fw_ci, fw_ai, fw_has_position, fw_price, fw_cycle>>
    /\ UNCHANGED outsideFW

\* 2. _calculate_indicators; an exception of calculate leaves the for loop
\* for the except clause of _run_loop, which sleeps and goes on looping
FWCalculateIndicators ==
    /\ fw_pc = "indicators"
    /\ IF fw_data_windows[FWSymbol] = None
       THEN /\ fw_pc' = "exit"
            /\ UNCHANGED <<fw_indicators, fw_cycle>>
       ELSE LET old == IF fw_indicators[FWSymbol] = None THEN <<>>
                       ELSE fw_indicators[FWSymbol].map
                r == CalculateFrom(fw_indicator_blocks, 1,
                                   fw_data_windows[FWSymbol].bars, old)
            IN /\ fw_indicators' = [fw_indicators EXCEPT ![FWSymbol] = [map |-> r.indicators]]
               /\ IF r.raised
                  THEN FWExcept
                  ELSE fw_pc' = "exit" /\ UNCHANGED fw_cycle
    /\ UNCHANGED <<fw_strategy, fw_portfolio, fw_is_running, fw_data_windows, fwBlocks,
                   fw_si, fw_ci, fw_ai, fw_has_position, fw_price, fw_log>>
    /\ UNCHANGED outsideFW

\* 3. _check_exit_conditions, then the guards of _evaluate_strategy
FWCheckExitConditions ==
    /\ fw_pc = "exit"
    /\ LET window == fw_data_windows[FWSymbol]
           decision == ExitDecision(fw_portfolio, FWSymbol, window)
       IN /\ fw_portfolio' = CheckExitConditions(fw_portfolio, FWSymbol, window, fw_cycle)
          /\ fw_log' = IF decision = "none" THEN fw_log
                       ELSE Append(fw_log, CloseEvent(GetCurrentPrice(window), decision))
          /\ IF \/ window = None
                \/ fw_indicators[FWSymbol] = None
                \/ Len(fw_condition_blocks) = 0
             THEN FWNextSymbol /\ UNCHANGED fw_ci
             ELSE fw_pc' = "conds" /\ fw_ci' = 1 /\ UNCHANGED <<fw_si, fw_cycle>>
    /\ UNCHANGED <<fw_strategy, fw_is_running, fwData, fwBlocks,
                   fw_ai, fw_has_position, fw_price>>
    /\ UNCHANGED outsideFW

\* the condition loop leaves block fw_ci without a match
FWNextCondition ==
    IF fw_ci = Len(fw_condition_blocks)
    THEN FWNextSymbol /\ UNCHANGED fw_ci
    ELSE fw_ci' = fw_ci + 1 /\ UNCHANGED <<fw_pc, fw_si, fw_cycle>>

\* 4. one iteration of the condition loop of _evaluate_strategy; on a match
\* _execute_actions begins: it reads the portfolio and has_position
FWEvaluateCondition ==
    /\ fw_pc = "conds"
    /\ LET condition_expr == fw_condition_blocks[fw_ci].expr
           df == fw_data_windows[FWSymbol].bars
           current_idx == Len(df) - 1
           value == Evaluate(condition_expr, fw_indicators[FWSymbol].map, current_idx)
       IN IF Len(condition_expr) = 0
          THEN /\ FWNextCondition
               /\ UNCHANGED <<fw_ai, fw_has_position, fw_price, fw_log>>
          ELSE IF PyTruthy(value)
          THEN /\ fw_log' = fw_log \o <<[e |-> "eval", ci |-> fw_ci, value |-> value],
                                        [e |-> "exec", ci |-> fw_ci]>>
               /\ fw_price' = RInt(df[Len(df)].close)
               /\ IF fw_portfolio = None \/ Len(fw_action_blocks) = 0
                  THEN FWNextSymbol /\ UNCHANGED <<fw_ai, fw_has_position>>
                  ELSE /\ fw_pc' = "actions"
                       /\ fw_ai' = 1
                       /\ fw_has_position' = (fw_portfolio.holdings[FWSymbol] # None)
                       /\ UNCHANGED <<fw_si, fw_cycle>>
               /\ UNCHANGED fw_ci
          ELSE /\ fw_log' = Append(fw_log, [e |-> "eval", ci |-> fw_ci, value |-> value])
               /\ FWNextCondition
               /\ UNCHANGED <<fw_ai, fw_has_position, fw_price>>
    /\ UNCHANGED <<fw_strategy, fw_portfolio, fw_is_running, fwData, fwBlocks>>
    /\ UNCHANGED outsideFW

\* one iteration of the loop of _execute_actions; after the last block the
\* condition loop breaks
FWExecuteAction ==
    /\ fw_pc = "actions"
    /\ LET action_block == fw_action_blocks[fw_ai]
           closes == /\ action_block.action \in {"SELL", "EXIT_ALL"}
                     /\ fw_has_position
                     /\ fw_portfolio.holdings[FWSymbol] # None
           Q == FWExecuteActionBlock(fw_portfolio, action_block, FWSymbol, fw_price,
                                     fw_has_position, FreshTradeId(fw_portfolio),
                                     fw_cycle)
       IN /\ fw_portfolio' = Q
          /\ fw_log' = (fw_log \o <<[e |-> "action", ai |-> fw_ai]>>)
                           \o (IF closes
                               THEN <<CloseEvent(fw_price,
                                                 IF action_block.action = "SELL"
                                                 THEN "logic" ELSE "exit-all")>>
                               ELSE IF Len(Q.trades) > Len(fw_portfolio.trades)
                               THEN <<[e |-> "open"]>>
                               ELSE <<>>)
    /\ IF fw_ai = Len(fw_action_blocks)
       THEN FWNextSymbol /\ UNCHANGED fw_ai
       ELSE fw_ai' = fw_ai + 1 /\ UNCHANGED <<fw_pc, fw_si, fw_cycle>>
    /\ UNCHANGED <<fw_strategy, fw_is_running, fwData, fwBlocks,
                   fw_ci, fw_has_position, fw_price>>
    /\ UNCHANGED outsideFW

FWNext ==
    \/ FWStart
    \/ FWStop
    \/ FWLoop
    \/ FWUpdateMarketData
    \/ FWCalculateIndicators
    \/ FWCheckExitConditions
    \/ FWEvaluateCondition
    \/ FWExecuteAction
    \/ FWWake

\* the steps of the worker thread between the data-source call and the
\* sleep of a cycle: computations that call nothing that can block
FWCompute ==
    \/ FWCalculateIndicators
    \/ FWCheckExitConditions
    \/ FWEvaluateCondition
    \/ FWExecuteAction

\* the worker is at one of these steps (each of them is enabled there)
FWComputing == fw_pc \in {"indicators", "exit", "conds", "actions"}

\* the worker thread keeps being scheduled, and its data-source calls and
\* its sleeps return: weak fairness of each of its steps.  For the computing
\* steps WF_vars(FWCompute) is written out, with FWComputing for
\* ENABLED <<FWCompute>>_vars.
FWFairness ==
    /\ WF_vars(FWLoop)
    /\ WF_vars(FWUpdateMarketData)
    /\ WF_vars(FWWake)
    /\ ([]<>(~FWComputing) \/ []<><<FWCompute>>_vars)

(***************************************************************************)
(* Two ForwardRunner threads trading one symbol into one portfolio.  The   *)
(* code takes no lock, so the threads may be switched between the          *)
(* statements of _execute_actions, _open_position and _close_position; a   *)
(* worker's steps are: reading has_position, reading the cash (and the     *)
(* holding), and writing the cash back together with the rest of the       *)
(* opening or closing.                                                     *)
(***************************************************************************)
Workers == {1, 2}

\* the symbol both deployed strategies name
SharedSymbol == "A"

\* the portfolio when the two workers arrive: flat with the capital 100, or
\* holding a position an earlier cycle opened at 100
TWPortfolios ==
    {NewPortfolio(RInt(100)),
     OpenPosition(NewPortfolio(RInt(100)), SharedSymbol, RInt(100), NoParams, 1, 0)}

TWInit ==
    /\ tw_portfolio \in TWPortfolios
    /\ tw_action_block \in [Workers -> {ActionBlock("BUY", NoParams),
                                        ActionBlock("SELL", NoParams)}]
    /\ tw_price \in [Workers -> {RInt(100), RInt(200)}]
    /\ tw_pc = [w \in Workers |-> "execute"]
    /\ tw_has_position = [w \in Workers |-> FALSE]
    /\ tw_read = [w \in Workers |-> None]

TWIdle ==
    /\ tw_portfolio = None
    /\ tw_action_block = [w \in Workers |-> None]
    /\ tw_price = [w \in Workers |-> None]
    /\ tw_pc = [w \in Workers |-> "idle"]
    /\ tw_has_position = [w \in Workers |-> FALSE]
    /\ tw_read = [w \in Workers |-> None]

\* _execute_actions: has_position = symbol in portfolio.holdings
TWReadHasPosition(w) ==
    /\ tw_pc[w] = "execute"
    /\ tw_has_position' = [tw_has_position EXCEPT
                              ![w] = (tw_portfolio.holdings[SharedSymbol] # None)]
    /\ tw_pc' = [tw_pc EXCEPT ![w] = "act"]
    /\ UNCHANGED <<tw_portfolio, tw_action_block, tw_price, tw_read>>
    /\ UNCHANGED outsideTW

\* the branch of _execute_actions for the worker's block, and the callee up
\* to its reads of the portfolio: _open_position reads the cash, returning
\* when there is nothing to buy; _close_position returns when the symbol is
\* not held and reads the holding and the cash
TWReadPortfolio(w) ==
    /\ tw_pc[w] = "act"
    /\ LET action_type == tw_action_block[w].action
           opens == action_type = "BUY" /\ ~tw_has_position[w]
           closes == action_type \in {"SELL", "EXIT_ALL"} /\ tw_has_position[w]
           returns ==
               \/ ~opens /\ ~closes
               \/ opens /\ OpenPosition(tw_portfolio, SharedSymbol, tw_price[w],
                                        tw_action_block[w].params, 0, 0) = tw_portfolio
               \/ closes /\ tw_portfolio.holdings[SharedSymbol] = None
       IN IF returns
          THEN /\ tw_pc' = [tw_pc EXCEPT ![w] = "done"]
               /\ UNCHANGED tw_read
          ELSE /\ tw_pc' = [tw_pc EXCEPT ![w] = "write"]
               /\ tw_read' = [tw_read EXCEPT
                                 ![w] = [cash |-> tw_portfolio.cash,
                                         holding |-> tw_portfolio.holdings[SharedSymbol]]]
    /\ UNCHANGED <<tw_portfolio, tw_action_block, tw_price, tw_has_position>>
    /\ UNCHANGED outsideTW

\* the rest of _open_position or _close_position: the cash the worker read,
\* less or plus the position value, is stored, then the holding is set or
\* deleted and the trade recorded.  Deleting a holding that is gone raises
\* KeyError, after the cash was stored; the exception ends the cycle.
TWWritePortfolio(w) ==
    /\ tw_pc[w] = "write"
    /\ LET action_type == tw_action_block[w].action
           seen == [tw_portfolio EXCEPT !.cash = tw_read[w].cash,
                                        !.holdings[SharedSymbol] = tw_read[w].holding]
       IN IF action_type = "BUY"
          THEN /\ tw_portfolio' =
                      OpenPosition([tw_portfolio EXCEPT !.cash = tw_read[w].cash],
                                   SharedSymbol, tw_price[w], tw_action_block[w].params,
                                   FreshTradeId(tw_portfolio), 0)
               /\ tw_pc' = [tw_pc EXCEPT ![w] = "done"]
          ELSE IF tw_portfolio.holdings[SharedSymbol] = None
          THEN /\ tw_portfolio' =
                      [tw_portfolio EXCEPT
                          !.cash = RAdd(tw_read[w].cash,
                                        RMul(tw_read[w].holding.qty, tw_price[w]))]
               /\ tw_pc' = [tw_pc EXCEPT ![w] = "raised"]
          ELSE /\ tw_portfolio' =
                      FWClosePosition(seen, SharedSymbol, tw_price[w],
                                      IF action_type = "SELL" THEN "logic"
                                      ELSE "exit-all", 0)
               /\ tw_pc' = [tw_pc EXCEPT ![w] = "done"]
    /\ UNCHANGED <<tw_action_block, tw_price, tw_has_position, tw_read>>
    /\ UNCHANGED outsideTW

TWNext ==
    \E w \in Workers :
        \/ TWReadHasPosition(w)
        \/ TWReadPortfolio(w)
        \/ TWWritePortfolio(w)

(***************************************************************************)
(* The two drivers on the same bar: a backtest at the top of its second    *)
(* bar and a forward worker whose second cycle has just merged that bar    *)
(* into its window, after a first bar that left both with the same ledger. *)
(***************************************************************************)
SameBarActions ==
    {<<ActionBlock("BUY", NoParams)>>,
     <<ActionBlock("BUY", NoParams), ActionBlock("SELL", NoParams)>>,
     <<ActionBlock("SELL", NoParams), ActionBlock("BUY", NoParams)>>,
     <<ActionBlock("BUY", NoParams), ActionBlock("BUY", NoParams)>>}

\* FLAT: the first bar closed at 80, below the condition's 95, and nothing
\* was done.  LONG: the first bar closed at 100 and the BUY block opened a
\* position at 100, which is what both drivers do on a match when flat if
\* the BUY block is the last action block.
SameBarScenarios ==
    {[start |-> "FLAT", actions |-> a, bar |-> b] :
         a \in SameBarActions, b \in BarShapes}
    \cup {[start |-> "LONG", actions |-> a, bar |-> b] :
              a \in {<<ActionBlock("BUY", NoParams)>>,
                     <<ActionBlock("SELL", NoParams), ActionBlock("BUY", NoParams)>>},
              b \in BarShapes}

SameBarBlocks(sc) ==
    <<IndicatorBlock(B1, "SMA", [period |-> 1]), ConditionBlock(Above95)>> \o sc.actions

SameBarFirst(sc) == IF sc.start = "LONG" THEN Bar(100, 100, 100) ELSE Bar(85, 80, 80)

\* the BacktestEngine with bar 0 processed
SameBarBacktest(sc) ==
    LET strategy == [blocks |-> SameBarBlocks(sc)]
        bars == <<SameBarFirst(sc), sc.bar>>
        flat == [cash |-> RInt(100), position |-> None, trades |-> <<>>]
        L == IF sc.start = "LONG" THEN OpenBuyPosition(flat, RInt(100), 0, NoParams)
             ELSE flat
    IN /\ bt_strategy = strategy
       /\ bt_df = [bars |-> bars]
       /\ bt_initial_capital = RInt(100)
       /\ bt_cash = L.cash
       /\ bt_position = L.position
       /\ bt_trades = L.trades
       /\ bt_equity_curve = <<[timestamp |-> 0, value |-> RInt(100)]>>
       /\ bt_indicators =
              CalculateIndicators(BlocksOfType(strategy, "indicator"), bars).indicators
       /\ bt_indicator_blocks = BlocksOfType(strategy, "indicator")
       /\ bt_condition_blocks = BlocksOfType(strategy, "condition")
       /\ bt_action_blocks = BlocksOfType(strategy, "action")
       /\ bt_idx = 1
       /\ bt_ci = 1
       /\ bt_ai = IF sc.start = "LONG" THEN Len(sc.actions) ELSE 0
       /\ bt_pc = "bar"
       /\ bt_result = None
       /\ bt_log = <<>>
       /\ bt_previous = None

\* the ForwardRunner with one cycle done and the second bar merged into the
\* window of its symbol
SameBarForward(sc) ==
    LET strategy == Deployed(<<SharedSymbol>>, SameBarBlocks(sc))
        first == [timestamp |-> 1, close |-> SameBarFirst(sc).close]
        second == [timestamp |-> 2, close |-> sc.bar.close]
        P == IF sc.start = "LONG"
             THEN OpenPosition(NewPortfolio(RInt(100)), SharedSymbol, RInt(100),
                               NoParams, 1, 0)
             ELSE NewPortfolio(RInt(100))
    IN /\ fw_strategy = strategy
       /\ fw_portfolio = P
       /\ fw_is_running = TRUE
       /\ fw_data_windows = [s \in Symbols |-> IF s = SharedSymbol
                                               THEN [bars |-> <<first, second>>]
                                               ELSE None]
       /\ fw_indicators =
              [s \in Symbols |->
                  IF s = SharedSymbol
                  THEN [map |-> CalculateFrom(BlocksOfType(strategy, "indicator"), 1,
                                              <<first>>, <<>>).indicators]
                  ELSE None]
       /\ fw_indicator_blocks = BlocksOfType(strategy, "indicator")
       /\ fw_condition_blocks = BlocksOfType(strategy, "condition")
       /\ fw_action_blocks = BlocksOfType(strategy, "action")
       /\ fw_si = 1
       /\ fw_ci = 1
       /\ fw_ai = IF sc.start = "LONG" THEN Len(sc.actions) ELSE 0
       /\ fw_has_position = FALSE
       /\ fw_price = IF sc.start = "LONG" THEN RInt(100) ELSE None
       /\ fw_cycle = 1
       /\ fw_pc = "indicators"
       /\ fw_log = <<[e |-> "symbol", symbol |-> SharedSymbol, bars |-> 1, idx |-> 1,
                      position |-> P.holdings[SharedSymbol]]>>

SameBarInit == \E sc \in SameBarScenarios : SameBarBacktest(sc) /\ SameBarForward(sc)

\* the steps of the backtest's bar and of the forward worker's cycle
SameBarNext ==
    \/ BTBar
    \/ BTEvaluateCondition
    \/ BTExecuteAction
    \/ FWCalculateIndicators
    \/ FWCheckExitConditions
    \/ FWEvaluateCondition
    \/ FWExecuteAction

(***************************************************************************)
(* Runners, their worker threads and the registry active_runners.  The     *)
(* calls of start, stop, deploy_strategy and stop_deployment come from one *)
(* caller; a worker thread's polling cycle (steps 1 to 4 for every symbol) *)
(* is one step here.  thread = 0 is self.thread = None, and                *)
(* active_runners[id] = 0 is an id the registry does not hold.             *)
(***************************************************************************)
DeploymentIds == {"d1", "d2"}

\* ForwardRunner(strategy, portfolio_id, deployment_id)
NewRunner(deployment_id) ==
    [deployment_id |-> deployment_id, is_running |-> FALSE, thread |-> 0]

\* the caller between two calls (and the call it made last)
Ready(op, arg) == [pc |-> "ready", op |-> op, arg |-> arg, thread |-> 0]

\* the caller inside thread.join(timeout=5) of stop()
Joining(op, arg, thread) == [pc |-> "join", op |-> op, arg |-> arg, thread |-> thread]

ARIdle ==
    /\ runners = <<>>
    /\ threads = <<>>
    /\ active_runners = [id \in DeploymentIds |-> 0]
    /\ caller = Ready("none", "")
    /\ calls = 0

\* one runner constructed and not started
StartStopInit ==
    /\ runners = <<NewRunner("d1")>>
    /\ threads = <<>>
    /\ active_runners = [id \in DeploymentIds |-> 0]
    /\ caller = Ready("none", "")
    /\ calls = 0

\* start() of runner r among the runners rs and the threads ts
Started(rs, ts, r) ==
    IF rs[r].is_running
    THEN [runners |-> rs, threads |-> ts]
    ELSE [runners |-> [rs EXCEPT ![r].is_running = TRUE, ![r].thread = Len(ts) + 1],
          threads |-> Append(ts, [runner |-> r, pc |-> "loop"])]

\* the caller may make one more call
MayCall == caller.pc = "ready" /\ calls < MaxCalls

\* start()
Start(r) ==
    /\ MayCall
    /\ runners' = Started(runners, threads, r).runners
    /\ threads' = Started(runners, threads, r).threads
    /\ caller' = Ready("start", runners[r].deployment_id)
    /\ calls' = calls + 1
    /\ UNCHANGED active_runners
    /\ UNCHANGED outsideAR

\* stop() up to its join: the flag is cleared, and the caller waits for the
\* thread when there is one
Stop(r) ==
    /\ MayCall
    /\ runners' = [runners EXCEPT ![r].is_running = FALSE]
    /\ caller' = IF runners[r].thread = 0
                 THEN Ready("stop", runners[r].deployment_id)
                 ELSE Joining("stop", runners[r].deployment_id, runners[r].thread)
    /\ calls' = calls + 1
    /\ UNCHANGED <<threads, active_runners>>
    /\ UNCHANGED outsideAR

\* thread.join(timeout=5) returns: the thread has ended, or the five
\* seconds pass while the worker is in a time.sleep of 60 seconds or more;
\* stop_deployment then deletes the registry entry
JoinReturn ==
    /\ caller.pc = "join"
    /\ threads[caller.thread].pc \in {"ended", "sleep"}
    /\ caller' = Ready(caller.op, caller.arg)
    /\ active_runners' = IF caller.op = "stop_deployment"
                         THEN [active_runners EXCEPT ![caller.arg] = 0]
                         ELSE active_runners
    /\ UNCHANGED <<runners, threads, calls>>
    /\ UNCHANGED outsideAR

\* deploy_strategy(strategy, portfolio_id, deployment_id)
DeployStrategy(deployment_id) ==
    /\ MayCall
    /\ LET runner == Len(runners) + 1
           s == Started(Append(runners, NewRunner(deployment_id)), threads, runner)
       IN /\ runners' = s.runners
          /\ threads' = s.threads
          /\ active_runners' = [active_runners EXCEPT ![deployment_id] = runner]
    /\ caller' = Ready("deploy_strategy", deployment_id)
    /\ calls' = calls + 1
    /\ UNCHANGED outsideAR

\* stop_deployment(deployment_id) up to the join of stop()
StopDeployment(deployment_id) ==
    /\ MayCall
    /\ LET runner == active_runners[deployment_id]
       IN IF runner = 0
          THEN /\ caller' = Ready("stop_deployment", deployment_id)
               /\ UNCHANGED runners
          ELSE /\ runners' = [runners EXCEPT ![runner].is_running = FALSE]
               /\ caller' = Joining("stop_deployment", deployment_id, runners[runner].thread)
    /\ calls' = calls + 1
    /\ UNCHANGED <<threads, active_runners>>
    /\ UNCHANGED outsideAR

ThreadTo(t, pc) == threads' = [threads EXCEPT ![t].pc = pc]

\* `while self.is_running:` of worker thread t
WorkerLoop(t) ==
    /\ threads[t].pc = "loop"
    /\ ThreadTo(t, IF runners[threads[t].runner].is_running THEN "cycle" ELSE "ended")
    /\ UNCHANGED <<runners, active_runners, caller, calls>>
    /\ UNCHANGED outsideAR

\* the body of the loop up to its time.sleep (of the try block or of the
\* except clause)
WorkerCycle(t) ==
    /\ threads[t].pc = "cycle"
    /\ ThreadTo(t, "sleep")
    /\ UNCHANGED <<runners, active_runners, caller, calls>>
    /\ UNCHANGED outsideAR

\* time.sleep returns
WorkerWake(t) ==
    /\ threads[t].pc = "sleep"
    /\ ThreadTo(t, "loop")
    /\ UNCHANGED <<runners, active_runners, caller, calls>>
    /\ UNCHANGED outsideAR

WorkerStep ==
    \E t \in 1..Len(threads) : WorkerLoop(t) \/ WorkerCycle(t) \/ WorkerWake(t)

\* start and stop called on the one runner in any order
StartStopNext ==
    \/ Start(1)
    \/ Stop(1)
    \/ JoinReturn
    \/ WorkerStep

\* deploy_strategy and stop_deployment called in any order
RegistryNext ==
    \/ \E id \in DeploymentIds : DeployStrategy(id)
    \/ \E id \in DeploymentIds : StopDeployment(id)
    \/ JoinReturn
    \/ WorkerStep

(***************************************************************************)
(* Specifications.                                                         *)
(***************************************************************************)
\* the condition evaluator applied to every input
InitCond == CEInit /\ BTIdle /\ FWIdle /\ TWIdle /\ ARIdle

SpecCond == InitCond /\ [][CEEvaluate]_vars

\* one backtest run on every input
InitBacktest == BTInit /\ CEIdle /\ FWIdle /\ TWIdle /\ ARIdle

SpecBacktest == InitBacktest /\ [][BTNext]_vars

\* a backtest run and a second run on the same inputs
NextTwice == BTNext \/ BTRunAgain

SpecBacktestTwice == InitBacktest /\ [][NextTwice]_vars

\* one deployment of the forward driver
InitForward == FWInit /\ CEIdle /\ BTIdle /\ TWIdle /\ ARIdle

SpecForward == InitForward /\ [][FWNext]_vars

\* the same with a worker thread that keeps being scheduled and whose
\* data-source calls and sleeps return
SpecForwardFair == InitForward /\ [][FWNext]_vars /\ FWFairness

\* one backtest run on bars whose prices may be 0: a close of 0 is a
\* non-negative price
ZeroPriceBars == {Bar(0, 0, 0), Bar(100, 100, 100)}

ZeroPriceFrames == {[bars |-> s] : s \in SeqsUpTo(ZeroPriceBars, MaxBars)}

ZeroPriceScenarios ==
    {<<StrategySellBuy, RInt(100)>>, <<StrategyBuyDefault, RInt(100)>>,
     <<StrategySellBuy, RInt(0)>>}

ZeroPriceInit ==
    /\ \E sc \in ZeroPriceScenarios : bt_strategy = sc[1] /\ bt_initial_capital = sc[2]
    /\ bt_df \in ZeroPriceFrames
    /\ BTConstructed
    /\ bt_pc = "fetch"
    /\ bt_previous = None

InitZeroPrice == ZeroPriceInit /\ CEIdle /\ FWIdle /\ TWIdle /\ ARIdle

SpecZeroPrice == InitZeroPrice /\ [][BTNext]_vars

\* the metrics calculator called on an engine whose equity curve and trade
\* list the caller has set: a curve of no sample, one or two samples; trade
\* lists of losing, flat and winning trades (one unit entered at 100 and
\* sold at 90, 100 or 110, or a third of a unit sold at 90 or 110)
TradeSoldAt(price) ==
    ClosePosition([cash |-> RInt(0),
                   position |-> [qty |-> RInt(1), avgPrice |-> RInt(100),
                                 stopLoss |-> None, takeProfit |-> None,
                                 entryTime |-> 0],
                   trades |-> <<>>],
                  RInt(price), 1, "logic", "u1").trades[1]

\* a third of a unit entered at 100: its pnl has no exact two-decimal value
ThirdSoldAt(price) ==
    ClosePosition([cash |-> RInt(0),
                   position |-> [qty |-> Rat(1, 3), avgPrice |-> RInt(100),
                                 stopLoss |-> None, takeProfit |-> None,
                                 entryTime |-> 0],
                   trades |-> <<>>],
                  RInt(price), 1, "logic", "u2").trades[1]

MetricsTrades ==
    {TradeSoldAt(90), TradeSoldAt(100), TradeSoldAt(110), ThirdSoldAt(90), ThirdSoldAt(110)}

MetricsCurves ==
    {<<>>,
     <<[timestamp |-> 0, value |-> RInt(100)]>>,
     <<[timestamp |-> 0, value |-> RInt(100)], [timestamp |-> 1, value |-> RInt(110)]>>}

MetricsCapitals == {RInt(0), RInt(100)}

MetricsInit ==
    /\ bt_strategy = StrategyEmpty
    /\ bt_df = [bars |-> <<>>]
    /\ bt_initial_capital \in MetricsCapitals
    /\ bt_cash = bt_initial_capital
    /\ bt_position = None
    /\ bt_trades \in SeqsUpTo(MetricsTrades, MaxTrades)
    /\ bt_equity_curve \in MetricsCurves
    /\ bt_indicators = <<>>
    /\ bt_indicator_blocks = <<>>
    /\ bt_condition_blocks = <<>>
    /\ bt_action_blocks = <<>>
    /\ bt_idx = 0
    /\ bt_ci = 0
    /\ bt_ai = 0
    /\ bt_result = None
    /\ bt_log = <<>>
    /\ bt_pc = "metrics"
    /\ bt_previous = None

InitMetrics == MetricsInit /\ CEIdle /\ FWIdle /\ TWIdle /\ ARIdle

SpecMetrics == InitMetrics /\ [][BTMetrics]_vars

\* strategies whose indicator returns several series: MACD (of the closes
\* and their two-bar average) and Bollinger bands over two bars
MultiSeriesBlocks(indicator, params) ==
    <<IndicatorBlock(B1, indicator, params),
      ConditionBlock(Above95),
      ActionBlock("BUY", NoParams),
      ActionBlock("SELL", NoParams)>>

StrategyMACD == [blocks |-> MultiSeriesBlocks("MACD", [fast |-> 1, slow |-> 3, signal |-> 1])]

StrategyBollinger == [blocks |-> MultiSeriesBlocks("BOLLINGER", [period |-> 2])]

DeployMACD == Deployed(<<"A">>, StrategyMACD.blocks)

DeployBollinger == Deployed(<<"A">>, StrategyBollinger.blocks)

MultiSeriesBacktest ==
    /\ bt_strategy \in {StrategyMACD, StrategyBollinger}
    /\ bt_initial_capital = RInt(100)
    /\ bt_df \in DataFrames
    /\ BTConstructed
    /\ bt_pc = "fetch"
    /\ bt_previous = None

MultiSeriesForward ==
    /\ fw_strategy \in {DeployMACD, DeployBollinger}
    /\ fw_portfolio = NewPortfolio(RInt(100))
    /\ FWConstructed
    /\ fw_pc = "new"

\* a backtest run or a deployment of one of them
InitMultiSeries ==
    \/ MultiSeriesBacktest /\ CEIdle /\ FWIdle /\ TWIdle /\ ARIdle
    \/ MultiSeriesForward /\ CEIdle /\ BTIdle /\ TWIdle /\ ARIdle

\* _update_market_data called on one symbol again and again, the data source
\* answering runs of bars: ticker.history(period='1d', interval='1m')
\* answers the bars of the session so far, which are more than window_size
\* after 100 minutes.  The bars of one answer carry one close, so a bar
\* tells which answer it came from; fw_log holds the last answer.
Run(from, length, close) ==
    [i \in 1..length |-> [timestamp |-> from + i - 1, close |-> close]]

RunFetches ==
    {Fetched(TRUE, <<>>), Fetched(FALSE, <<>>)}
    \cup {Fetched(FALSE, Run(from, length, close)) :
              from \in 1..MaxTs, length \in {1, 2, window_size, MaxRun}, close \in {50, 100}}

WindowInit ==
    /\ fw_strategy = DeployNoAction
    /\ fw_portfolio = None
    /\ FWConstructed
    /\ fw_pc = "refresh"

UpdateMarketDataCall ==
    /\ fw_pc = "refresh"
    /\ fw_cycle < MaxCycles
    /\ \E fetched \in RunFetches :
          /\ fw_data_windows' =
                 [fw_data_windows EXCEPT
                      ![SharedSymbol] = UpdateMarketData(fw_data_windows[SharedSymbol], fetched)]
          /\ fw_log' = <<[e |-> "fetched", fetched |-> fetched]>>
    /\ fw_cycle' = fw_cycle + 1
    /\ UNCHANGED <<fw_strategy, fw_portfolio, fw_is_running, fw_indicators, fwBlocks,
                   fw_si, fw_ci, fw_ai, fw_has_position, fw_price, fw_pc>>
    /\ UNCHANGED outsideFW

InitWindow == WindowInit /\ CEIdle /\ BTIdle /\ TWIdle /\ ARIdle

SpecWindow == InitWindow /\ [][UpdateMarketDataCall]_vars

\* two forward workers on one portfolio
\* the evaluator applied to comparisons over ids of which one is a prefix of
\* another: b1 and b10 in the order of their blocks and in the reverse
\* order, b1_signal and b1 in the order indicator setup stores the series of
\* a MACD block b1, and for contrast b1 and b2
B10 == <<"b", "1", "0">>

B1_signal == B1 \o <<"_">> \o S_signal

\* <<X, op, c>> or <<X, op, Y>>
PrefixComparisons ==
    {<<B10, <<">">>, <<"6">>>>, <<B10, <<"<">>, <<"6">>>>, <<B1, <<">">>, <<"6">>>>,
     <<B10, <<"<">>, B1>>, <<B1, <<"<">>, B10>>,
     <<B1_signal, <<">">>, <<"6">>>>, <<B1_signal, <<"<">>, B1>>,
     <<B2, <<">">>, B1>>}

PrefixIdPairs == {<<B1, B10>>, <<B10, B1>>, <<B1_signal, B1>>, <<B1, B2>>}

PrefixMaps ==
    {<<[id |-> p[1], series |-> s], [id |-> p[2], series |-> t]>> :
         p \in PrefixIdPairs, s \in SeriesSet, t \in SeriesSet}

PrefixIdsInit ==
    /\ ce_expr \in {Cmp(c[1], c[2], c[3]) : c \in PrefixComparisons}
    /\ ce_indicators \in PrefixMaps
    /\ ce_idx \in 0..(MaxSeries - 1)
    /\ ce_result = None
    /\ ce_pc = "call"

InitPrefixIds == PrefixIdsInit /\ BTIdle /\ FWIdle /\ TWIdle /\ ARIdle

SpecPrefixIds == InitPrefixIds /\ [][CEEvaluate]_vars

\* one runner under calls of start and stop
InitStartStop == StartStopInit /\ CEIdle /\ BTIdle /\ FWIdle /\ TWIdle

SpecStartStop == InitStartStop /\ [][StartStopNext]_vars

\* the registry under calls of deploy_strategy and stop_deployment
InitRegistry == ARIdle /\ CEIdle /\ BTIdle /\ FWIdle /\ TWIdle

SpecRegistry == InitRegistry /\ [][RegistryNext]_vars

InitTwoWorkers == TWInit /\ CEIdle /\ BTIdle /\ FWIdle /\ ARIdle

SpecTwoWorkers == InitTwoWorkers /\ [][TWNext]_vars

\* both drivers on the same second bar
InitSameBar == SameBarInit /\ CEIdle /\ TWIdle /\ ARIdle

SpecSameBar == InitSameBar /\ [][SameBarNext]_vars

\* either driver at work on its inputs
InitDrivers == InitBacktest \/ InitForward

NextDrivers == BTNext \/ FWNext

SpecDrivers == InitDrivers /\ [][NextDrivers]_vars

\* both drivers on the strategies whose indicator returns several series
SpecMultiSeries == InitMultiSeries /\ [][NextDrivers]_vars

(***************************************************************************)
(* Properties of the drivers and their ledgers.                            *)
(***************************************************************************)
Last(seq) == seq[Len(seq)]

\* positions in a log of the events of one kind
EventsOf(log, kind) == {k \in 1..Len(log) : log[k].e = kind}

\* the trades of a symbol the forward ledger lists as open
OpenTrades(P, symbol) ==
    {k \in 1..Len(P.trades) :
        P.trades[k].symbol = symbol /\ P.trades[k].status = "open"}

\* C1: in the forward ledger a symbol has a holding iff exactly one trade of
\* the symbol in the portfolio's trade list is open, whatever the action
\* blocks are and however many polling cycles have run.
C1_HoldingIffOneOpenTrade ==
    fw_portfolio # None =>
        \A s \in Symbols :
            (fw_portfolio.holdings[s] # None)
                <=> (Cardinality(OpenTrades(fw_portfolio, s)) = 1)

\* the bar whose events bt_log holds, and the position open when it began
LogBar == bt_df.bars[bt_log[1].idx + 1]

LogPosition == bt_log[1].position

StopLossHit ==
    LogPosition.stopLoss # None /\ RLe(RInt(LogBar.low), LogPosition.stopLoss)

TakeProfitHit ==
    LogPosition.takeProfit # None /\ RGe(RInt(LogBar.high), LogPosition.takeProfit)

\* the bar did nothing but close the position for the reason: no condition
\* was evaluated, no action executed, the trade is the last one recorded
ExitedOnly(reason) ==
    /\ Len(bt_log) = 2
    /\ bt_log[2].e = "close"
    /\ bt_log[2].reason = reason
    /\ bt_position = None
    /\ Len(bt_trades) > 0
    /\ Last(bt_trades).exitReason = reason
    /\ Last(bt_trades).exitTime = bt_log[1].idx

\* C2: on a bar of a backtest that begins with a position open, a low at or
\* below the stop price closes the position with reason stop-loss, even when
\* the high reaches the target; otherwise a high at or above the target
\* closes it with reason take-profit; either way the bar evaluates no
\* condition block and executes no action.
C2_ExitChecksFirst ==
    (Len(bt_log) > 0 /\ LogPosition # None) =>
        /\ StopLossHit => ExitedOnly("stop-loss")
        /\ (~StopLossHit /\ TakeProfitHit) => ExitedOnly("take-profit")

\* a position entered at 100 with its stop at 95 meets a bar with low 95 and
\* high 110 and is closed by the stop
C2_Witness ==
    /\ Len(bt_log) > 0
    /\ LogPosition # None
    /\ LogPosition.avgPrice = RInt(100)
    /\ LogPosition.stopLoss = RInt(95)
    /\ StopLossHit
    /\ TakeProfitHit
    /\ ExitedOnly("stop-loss")

\* what a log says about the condition blocks: they were evaluated in
\* definition order on the indicators at idx, skipping only blocks without
\* an expression; actions were triggered at most once, by the first block
\* whose value was true, after which no block was evaluated; every true
\* value triggered; no action was executed without a trigger
FirstMatchWins(log, condition_blocks, indicators, idx) ==
    LET evals == EventsOf(log, "eval")
        execs == EventsOf(log, "exec")
        actions == EventsOf(log, "action")
    IN /\ \A j, k \in evals : j < k => log[j].ci < log[k].ci
       /\ \A k \in evals :
             /\ log[k].value = Evaluate(condition_blocks[log[k].ci].expr, indicators, idx)
             /\ \A c \in 1..(log[k].ci - 1) :
                   \/ Len(condition_blocks[c].expr) = 0
                   \/ \E j \in evals : j < k /\ log[j].ci = c
             /\ PyTruthy(log[k].value) => k + 1 \in execs
       /\ Cardinality(execs) <= 1
       /\ \A x \in execs :
             /\ x - 1 \in evals
             /\ log[x - 1].ci = log[x].ci
             /\ PyTruthy(log[x - 1].value)
             /\ \A k \in evals : k < x
             /\ \A k \in evals : k < x - 1 => ~PyTruthy(log[k].value)
       /\ \A a \in actions : \E x \in execs : x < a

\* the indicators of the symbol whose events fw_log holds
LogIndicators ==
    IF fw_indicators[fw_log[1].symbol] = None THEN <<>>
    ELSE fw_indicators[fw_log[1].symbol].map

\* C3: first-match-wins, for each bar of a backtest and each polling cycle of
\* a symbol of a forward run: condition blocks are evaluated in definition
\* order, actions are triggered at most once, by the first block that
\* evaluates true, later blocks are not evaluated, and without a true
\* condition no action is executed.
C3_FirstMatchWins ==
    /\ Len(bt_log) > 0 =>
          FirstMatchWins(bt_log, bt_condition_blocks, bt_indicators, bt_log[1].idx)
    /\ Len(fw_log) > 0 =>
          FirstMatchWins(fw_log, fw_condition_blocks, LogIndicators, fw_log[1].idx)

\* a polling cycle in which a condition block was false, a later one
\* triggered the actions, and the block after it, though true, was skipped
C3_Witness ==
    /\ Len(fw_log) > 0
    /\ \E x \in EventsOf(fw_log, "exec") :
          /\ \E k \in EventsOf(fw_log, "eval") : k < x - 1
          /\ fw_log[x].ci < Len(fw_condition_blocks)
          /\ PyTruthy(Evaluate(fw_condition_blocks[fw_log[x].ci + 1].expr,
                               LogIndicators, fw_log[1].idx))
          /\ EventsOf(fw_log, "action") # {}

EndOfBacktestTrades(trades) ==
    {k \in 1..Len(trades) : trades[k].exitReason = "end-of-backtest"}

\* C4: no trade is closed for end-of-backtest while bars are simulated; a
\* position open after the last bar is closed by exactly one such trade, the
\* last of the list, at the last bar's close, and no position stays open; no
\* such trade is recorded when no position is open; the completed result
\* returns that trade list.
C4_EndOfBacktest ==
    [][/\ bt_pc \in {"bar", "conds", "actions"} => EndOfBacktestTrades(bt_trades) = {}
       /\ (bt_pc = "bar" /\ bt_pc' = "metrics") =>
             /\ bt_position' = None
             /\ IF bt_position # None
                THEN /\ Len(bt_trades') = Len(bt_trades) + 1
                     /\ SubSeq(bt_trades', 1, Len(bt_trades)) = bt_trades
                     /\ EndOfBacktestTrades(bt_trades') = {Len(bt_trades')}
                     /\ Last(bt_trades').exitPrice = RInt(Last(bt_df.bars).close)
                ELSE bt_trades' = bt_trades
       /\ bt_pc = "metrics" =>
             /\ bt_position = None
             /\ bt_trades' = bt_trades
             /\ bt_result'.status = "completed" => bt_result'.trades = bt_trades
      ]_vars

\* a completed run that traded before and whose last trade is the forced one
C4_Witness ==
    /\ bt_pc = "done"
    /\ bt_result.status = "completed"
    /\ Len(bt_result.trades) >= 2
    /\ EndOfBacktestTrades(bt_result.trades) = {Len(bt_result.trades)}
    /\ Last(bt_result.trades).exitPrice = RInt(Last(bt_df.bars).close)
    /\ bt_position = None

\* C5: an action block of the backtest: BUY while FLAT with cash, size and
\* price positive opens a position of cash*sizePct/price and takes
\* cash*sizePct from cash; BUY while LONG, SELL or EXIT_ALL while FLAT, and
\* any other kind leave position, cash and trades as they are.
C5_ActionEffects ==
    [][bt_pc = "actions" =>
          LET action_block == bt_action_blocks[bt_ai]
              kind == action_block.action
              price == RInt(bt_df.bars[bt_idx + 1].close)
              sizePct == IF "sizePct" \in DOMAIN action_block.params
                         THEN action_block.params.sizePct ELSE Rat(1, 4)
          IN /\ ( /\ kind = "BUY"
                  /\ bt_position = None
                  /\ RGt(bt_cash, RInt(0))
                  /\ RGt(sizePct, RInt(0))
                  /\ RGt(price, RInt(0)) ) =>
                    /\ bt_position' # None
                    /\ bt_position'.qty = RDiv(RMul(bt_cash, sizePct), price)
                    /\ bt_cash' = RSub(bt_cash, RMul(bt_cash, sizePct))
                    /\ bt_trades' = bt_trades
             /\ ( \/ kind = "BUY" /\ bt_position # None
                  \/ kind \in {"SELL", "EXIT_ALL"} /\ bt_position = None
                  \/ kind \notin {"BUY", "SELL", "EXIT_ALL"} ) =>
                    UNCHANGED <<bt_position, bt_cash, bt_trades>>
      ]_vars

\* a BUY block met a position and went by
C5_Witness ==
    /\ bt_pc \in {"bar", "actions"}
    /\ Len(bt_log) > 0
    /\ LogPosition # None
    /\ bt_position = LogPosition
    /\ Last(bt_log).e = "action"
    /\ bt_action_blocks[Last(bt_log).ai].action = "BUY"

\* C6: closing a position of quantity qty entered at entryPrice, at the
\* price p and for the reason the caller gives, adds qty*p to cash, removes
\* the position, and records on the trade the pnl qty*(p - entryPrice) and
\* the reason; in the backtest ledger the trade is appended, in the forward
\* ledger it is the one trade of the list that goes from open to closed.
C6_CloseEffects ==
    [][/\ ( \/ bt_position # None /\ bt_position' = None
            \/ bt_log' # bt_log /\ Len(bt_log') > 0 /\ Last(bt_log').e = "close" ) =>
             LET ev == Last(bt_log')
                 trade == Last(bt_trades')
             IN /\ bt_log' # bt_log
                /\ ev.e = "close"
                /\ bt_position # None
                /\ bt_position' = None
                /\ bt_cash' = RAdd(bt_cash, RMul(bt_position.qty, ev.price))
                /\ bt_trades' = Append(bt_trades, trade)
                /\ trade.pnl = RMul(bt_position.qty, RSub(ev.price, bt_position.avgPrice))
                /\ trade.exitReason = ev.reason
                /\ trade.exitPrice = ev.price
       /\ \A s \in Symbols :
            ( /\ fw_portfolio # None
              /\ \/ fw_portfolio.holdings[s] # None /\ fw_portfolio'.holdings[s] = None
                 \/ /\ fw_log' # fw_log
                    /\ Len(fw_log') > 0
                    /\ Last(fw_log').e = "close"
                    /\ fw_log'[1].symbol = s ) =>
             LET ev == Last(fw_log')
                 P == fw_portfolio
                 Q == fw_portfolio'
                 closed == {k \in 1..Len(P.trades) : Q.trades[k] # P.trades[k]}
             IN /\ fw_log' # fw_log
                /\ ev.e = "close"
                /\ fw_log'[1].symbol = s
                /\ P.holdings[s] # None
                /\ Q.holdings[s] = None
                /\ \A t \in Symbols \ {s} : Q.holdings[t] = P.holdings[t]
                /\ Q.cash = RAdd(P.cash, RMul(P.holdings[s].qty, ev.price))
                /\ Len(Q.trades) = Len(P.trades)
                /\ Cardinality(closed) = 1
                /\ \A k \in closed :
                      /\ P.trades[k].symbol = s
                      /\ P.trades[k].status = "open"
                      /\ Q.trades[k].status = "closed"
                      /\ Q.trades[k].pnl = RMul(P.holdings[s].qty,
                                                RSub(ev.price, P.holdings[s].avgPrice))
                      /\ Q.trades[k].exitReason = ev.reason
                      /\ Q.trades[k].exitPrice = ev.price
      ]_vars

\* the forward ledger after an exit at a profit: the holding is gone, the
\* trade is closed by the target, cash is above the capital
C6_Witness ==
    /\ fw_portfolio # None
    /\ Len(fw_log) > 0
    /\ Last(fw_log).e = "close"
    /\ Last(fw_log).reason = "take-profit"
    /\ fw_portfolio.holdings[fw_log[1].symbol] = None
    /\ \E k \in 1..Len(fw_portfolio.trades) :
          /\ fw_portfolio.trades[k].status = "closed"
          /\ fw_portfolio.trades[k].exitReason = "take-profit"
          /\ RGt(fw_portfolio.trades[k].pnl, RInt(0))
    /\ RGt(fw_portfolio.cash, RInt(100))

\* the seven kinds IndicatorEngine.calculate knows
KnownIndicators == {"SMA", "EMA", "RSI", "MACD", "BOLLINGER", "VWAP", "ATR"}

NoData == bt_df = None \/ Len(bt_df.bars) = 0

UnknownIndicator ==
    \E k \in 1..Len(bt_strategy.blocks) :
        /\ bt_strategy.blocks[k].type = "indicator"
        /\ Upper(bt_strategy.blocks[k].indicator) \notin KnownIndicators

\* the total return divides by the initial capital
MetricsError == bt_initial_capital = RInt(0)

\* C7: run never raises: it ends with a result that is failed with an error
\* message, exactly when there is no bar data, an unknown indicator kind or
\* an error in the simulation or the metrics, and otherwise completed with
\* equityCurve, trades and metrics; an unknown indicator kind fails the run
\* before any bar is simulated.
C7_NeverRaises ==
    /\ bt_pc \in {"idle", "fetch", "parse", "indicators", "bar", "conds", "actions",
                  "metrics", "done"}
    /\ bt_pc # "done" => bt_result = None
    /\ bt_pc = "done" =>
          /\ bt_result # None
          /\ bt_result.status \in {"failed", "completed"}
          /\ bt_result.status = "failed" <=> (NoData \/ UnknownIndicator \/ MetricsError)
          /\ bt_result.status = "failed" =>
                DOMAIN bt_result = {"status", "error"} /\ bt_result.error # ""
          /\ bt_result.status = "completed" =>
                /\ DOMAIN bt_result = {"status", "equityCurve", "trades", "metrics"}
                /\ bt_result.equityCurve = bt_equity_curve
                /\ bt_result.trades = bt_trades
          /\ (~NoData /\ UnknownIndicator) =>
                bt_equity_curve = <<>> /\ bt_trades = <<>> /\ bt_log = <<>>

\* a run on bars that failed on an unknown indicator kind, no bar simulated
C7_Witness ==
    /\ bt_pc = "done"
    /\ ~NoData
    /\ UnknownIndicator
    /\ bt_result.status = "failed"
    /\ bt_equity_curve = <<>>

(***************************************************************************)
(* Properties of the condition evaluator (SpecCond).                       *)
(***************************************************************************)
AllDefined(series) == \A k \in 1..Len(series) : ~IsNaN(series[k])

IdPairs == {<<B1, B2>>, <<B2, B1>>}

\* the call was cross_over(a,b) on a map holding both series, fully defined,
\* at an index inside the series
CrossOverCase(a, b) ==
    /\ ce_pc = "return"
    /\ ce_expr = XOver(a, b)
    /\ IndHas(ce_indicators, a) /\ IndHas(ce_indicators, b)
    /\ AllDefined(IndSeries(ce_indicators, a))
    /\ AllDefined(IndSeries(ce_indicators, b))
    /\ ce_idx < Len(IndSeries(ce_indicators, a))

\* C8: for series A, B with defined values, cross_over(A,B) at index i >= 1 is
\* true iff A[i-1] < B[i-1] and A[i] > B[i]; at i = 0 it is false.
C8_CrossOverIff ==
    \A p \in IdPairs :
        CrossOverCase(p[1], p[2]) =>
            LET A == IndSeries(ce_indicators, p[1])
                B == IndSeries(ce_indicators, p[2])
                i == ce_idx + 1
            IN ce_result = PyBool(/\ ce_idx >= 1
                                  /\ A[i - 1].n * B[i - 1].d < B[i - 1].n * A[i - 1].d
                                  /\ A[i].n * B[i].d > B[i].n * A[i].d)

\* a cross_over call at an index >= 1 that returned true
C8_Witness ==
    /\ CrossOverCase(B1, B2)
    /\ ce_idx >= 1
    /\ ce_result = PyTrue

\* the series named by a crossover call is missing, or undefined at idx-1 or idx
CrossUndefined(id) ==
    \/ ~IndHas(ce_indicators, id)
    \/ /\ ce_idx >= 1
       /\ ce_idx < Len(IndSeries(ce_indicators, id))
       /\ \/ IsNaN(IndSeries(ce_indicators, id)[ce_idx])
          \/ IsNaN(IndSeries(ce_indicators, id)[ce_idx + 1])

\* C9: cross_over and cross_under evaluate to false whenever idx < 1, or
\* either series is missing from the map, or either series is undefined at
\* idx-1 or idx.
C9_CrossFailsClosed ==
    (ce_pc = "return" /\ ce_expr \in CrossExprs) =>
        LET ids == FindBlockIds(ce_expr, 1)
        IN (ce_idx < 1 \/ CrossUndefined(ids[1]) \/ CrossUndefined(ids[2]))
               => ce_result = PyFalse

RangeOf(seq) == {seq[k] : k \in 1..Len(seq)}

\* some series whose id is a token of the expression is undefined at idx
ReferencedUndefined ==
    \E k \in 1..Len(ce_indicators) :
        /\ ce_indicators[k].id \in RangeOf(Tokens(ce_expr, 1))
        /\ ce_idx < Len(ce_indicators[k].series)
        /\ IsNaN(ce_indicators[k].series[ce_idx + 1])

\* C10: a comparison condition evaluates to false (never lets the driver's
\* `if` pass) when a referenced series is undefined at idx, and also when the
\* expression is not a boolean comparison (a bare id, an arithmetic term).
C10_ComparisonFailsClosed ==
    (ce_pc = "return" /\ ce_expr \in CompareExprs \cup NonBooleanExprs) =>
        /\ ReferencedUndefined => ~PyTruthy(ce_result)
        /\ ce_expr \in NonBooleanExprs => ~PyTruthy(ce_result)

(***************************************************************************)
(* Determinism of the backtest.                                            *)
(***************************************************************************)
\* C11: two runs of the backtest on the same strategy, the same bars and the
\* same initial capital return the same dict: the second run's result
\* equals what the first run returned, in the equity curve, in every field
\* of every trade record and in the metrics.
C11_SameInputsSameResult ==
    (bt_pc = "done" /\ bt_previous # None) => bt_result = bt_previous

(***************************************************************************)
(* The forward worker's loop: errors and stopping.                         *)
(***************************************************************************)
\* the worker is about to compute the indicators of a symbol and calculate
\* will raise (an unknown indicator)
IndicatorsRaise ==
    /\ fw_pc = "indicators"
    /\ fw_data_windows[FWSymbol] # None
    /\ CalculateFrom(fw_indicator_blocks, 1, fw_data_windows[FWSymbol].bars, <<>>).raised

\* C12: an exception raised in a polling cycle never ends the worker loop.
\* The step that raises takes the worker into the sleep of the error delay;
\* from that sleep the worker goes to the top of its loop and nowhere else;
\* at the top of the loop with the running flag set it starts another cycle
\* (or sleeps again when there are no symbols); and the worker stops only
\* from the top of the loop with the running flag cleared, that is, after
\* a stop request.
C12_ErrorsNeverEndTheLoop ==
    [][/\ IndicatorsRaise => (fw_pc' = "indicators" \/
                              (fw_pc' = "backoff" /\ SleepSeconds' = ErrorDelay))
       /\ (fw_pc = "backoff" /\ fw_pc' # "backoff") => fw_pc' = "loop"
       /\ (fw_pc = "loop" /\ fw_is_running /\ fw_pc' # "loop")
              => fw_pc' \in {"update", "sleep"}
       /\ (fw_pc # "stopped" /\ fw_pc' = "stopped")
              => (fw_pc = "loop" /\ ~fw_is_running /\ ~fw_is_running')
      ]_vars

\* a cycle has raised (every cycle of this deployment that has a window
\* raises), the error delay is over and the worker, still running, has
\* begun another cycle
C12_Witness ==
    /\ fw_strategy = DeployUnknownIndicator
    /\ fw_is_running
    /\ fw_cycle >= 1
    /\ fw_pc = "update"
    /\ fw_data_windows[FWSymbol] # None

\* stop() has been called on a started runner
StopRequested == fw_pc # "new" /\ ~fw_is_running

RECURSIVE LedgerCash(_, _, _)
LedgerCash(trades, k, capital) ==
    IF k = 0 THEN capital
    ELSE LET t == trades[k]
             before == LedgerCash(trades, k - 1, capital)
             entered == RSub(before, RMul(t.quantity, t.entryPrice))
         IN IF t.status = "closed" THEN RAdd(entered, RMul(t.quantity, t.exitPrice))
            ELSE entered

\* C14: with two forward workers trading one symbol into one portfolio, the
\* check of the holding and the opening or closing that follows are atomic:
\* in every state the symbol has at most one open trade (the position is
\* never opened twice), and the cash is the capital less what the openings
\* took plus what the closings gave (no cash update is lost).
C14_CheckThenActAtomic ==
    tw_portfolio # None =>
        /\ Cardinality(OpenTrades(tw_portfolio, SharedSymbol)) <= 1
        /\ tw_portfolio.cash =
               LedgerCash(tw_portfolio.trades, Len(tw_portfolio.trades), RInt(100))

(***************************************************************************)
(* The two drivers compared.                                               *)
(***************************************************************************)
\* the reasons of the closes a log records, in order
RECURSIVE CloseReasons(_)
CloseReasons(log) ==
    IF Len(log) = 0 THEN <<>>
    ELSE (IF log[1].e = "close" THEN <<log[1].reason>> ELSE <<>>) \o CloseReasons(Tail(log))

\* the backtest has finished its second bar, the forward worker its cycle
SameBarDone == bt_pc = "bar" /\ bt_idx = 2 /\ fw_pc = "sleep"

\* C15: the two drivers have the same ledger semantics.  Started on the same
\* ledger (flat, or long with the same quantity, entry price, stop and
\* target, and the same cash) and given the same bar, the same condition
\* and the same action blocks, the backtest's bar and the forward worker's
\* cycle end in the same position state with the same quantity, the same
\* cash and the same exit reasons.
C15_SameLedgerSemantics ==
    SameBarDone =>
        LET holding == fw_portfolio.holdings[SharedSymbol]
        IN /\ (bt_position = None) <=> (holding = None)
           /\ (bt_position # None /\ holding # None) => bt_position.qty = holding.qty
           /\ bt_cash = fw_portfolio.cash
           /\ CloseReasons(bt_log) = CloseReasons(fw_log)

(***************************************************************************)
(* Cash of the ledgers.                                                    *)
(***************************************************************************)
\* C16: for initial capital >= 0, non-negative prices and every BUY sizePct
\* in (0, 1], cash is >= 0 in every reachable state of the backtest ledger
\* and of a single-worker forward ledger, and cash changes only when a
\* position is opened (it decreases by quantity * entry price) or closed
\* (it increases by quantity * exit price).
C16_CashNonNegative ==
    [][/\ RGe(bt_cash', RInt(0))
       /\ bt_cash' # bt_cash =>
            \/ /\ bt_position = None
               /\ bt_position' # None
               /\ bt_cash' = RSub(bt_cash, RMul(bt_position'.qty, bt_position'.avgPrice))
            \/ /\ bt_position # None
               /\ bt_position' = None
               /\ bt_trades' # bt_trades
               /\ bt_cash' = RAdd(bt_cash, RMul(bt_position.qty, Last(bt_trades').exitPrice))
       /\ (fw_portfolio # None /\ fw_portfolio' # None) =>
            LET P == fw_portfolio
                Q == fw_portfolio'
            IN /\ RGe(Q.cash, RInt(0))
               /\ Q.cash # P.cash =>
                    \E s \in Symbols :
                       \/ /\ Len(Q.trades) = Len(P.trades) + 1
                          /\ Q.holdings[s] # None
                          /\ Q.cash = RSub(P.cash, RMul(Q.holdings[s].qty,
                                                        Q.holdings[s].avgPrice))
                       \/ /\ P.holdings[s] # None
                          /\ Q.holdings[s] = None
                          /\ fw_log' # fw_log
                          /\ Last(fw_log').e = "close"
                          /\ Q.cash = RAdd(P.cash, RMul(P.holdings[s].qty,
                                                        Last(fw_log').price))
      ]_vars

(***************************************************************************)
(* The metrics of an empty equity curve.                                   *)
(***************************************************************************)
\* the keys of the metrics dict but finalValue are 0
ZeroButFinalValue(metrics) ==
    /\ metrics.totalReturnPct = RInt(0)
    /\ metrics.cagr = RInt(0)
    /\ metrics.sharpeRatio = RInt(0)
    /\ metrics.maxDrawdown = RInt(0)
    /\ metrics.winRate = RInt(0)
    /\ metrics.profitFactor = RInt(0)
    /\ metrics.totalTrades = 0
    /\ metrics.winningTrades = 0
    /\ metrics.losingTrades = 0
    /\ metrics.avgWin = RInt(0)
    /\ metrics.avgLoss = RInt(0)

MetricsOfEmptyCurve == bt_pc \in {"done", "raised"} /\ bt_equity_curve = <<>>

\* C17 as stated: the metrics calculator called with an empty equity curve
\* returns 0 for every metric and never raises, whatever the trade list
\* contains.
C17_AllZeroDefaults ==
    MetricsOfEmptyCurve =>
        /\ bt_pc = "done"
        /\ bt_result.status = "completed"
        /\ ZeroButFinalValue(bt_result.metrics)
        /\ bt_result.metrics.finalValue = RInt(0)

\* C17: the metrics calculator called with an empty equity curve never
\* raises and, whatever the trade list contains, returns 0 for every metric
\* but finalValue, which is the initial capital.
C17_DefaultsOfEmptyCurve ==
    MetricsOfEmptyCurve =>
        /\ bt_pc = "done"
        /\ bt_result.status = "completed"
        /\ ZeroButFinalValue(bt_result.metrics)
        /\ bt_result.metrics.finalValue = bt_initial_capital

\* the defaults were returned for a capital of 100 and a trade list with a
\* winning and a losing trade
C17_Witness ==
    /\ MetricsOfEmptyCurve
    /\ bt_pc = "done"
    /\ bt_initial_capital = RInt(100)
    /\ \E j, k \in 1..Len(bt_trades) :
          RGt(bt_trades[j].pnl, RInt(0)) /\ RLt(bt_trades[k].pnl, RInt(0))

(***************************************************************************)
(* Indicators of several series.                                           *)
(***************************************************************************)
\* the series map holds the series of block id under the keys id_<key> and
\* the series of the key main under id itself
HasSeriesOf(indicators, id, keys, main) ==
    /\ \A key \in keys : IndHas(indicators, id \o <<"_">> \o key)
    /\ IndHas(indicators, id)
    /\ IndSeries(indicators, id) = IndSeries(indicators, id \o <<"_">> \o main)

\* what indicator setup leaves in a series map for the indicator blocks
MultiSeriesSetUp(blocks, indicators) ==
    \A k \in 1..Len(blocks) :
        /\ blocks[k].indicator = "MACD" =>
               HasSeriesOf(indicators, blocks[k].id, {S_macd, S_signal, S_histogram}, S_macd)
        /\ blocks[k].indicator = "BOLLINGER" =>
               HasSeriesOf(indicators, blocks[k].id, {S_upper, S_middle, S_lower}, S_middle)

\* the backtest has run its indicator setup
BTSetupDone == bt_pc \notin {"idle", "fetch", "parse", "indicators"} /\ ~NoData

\* C18: for a MACD indicator block with id X, indicator setup succeeds in
\* both drivers and leaves the series map containing X_macd, X_signal and
\* X_histogram plus the default alias X bound to the macd series (for a
\* Bollinger block, X_upper, X_middle, X_lower plus X bound to the middle
\* series), so that the simulation proceeds to evaluate conditions on these
\* series.
C18_MultiSeriesSetup ==
    /\ BTSetupDone =>
          /\ ~(bt_pc = "done" /\ bt_result.status = "failed")
          /\ MultiSeriesSetUp(bt_indicator_blocks, bt_indicators)
    /\ \A s \in Symbols :
          fw_indicators[s] # None =>
              /\ fw_pc # "backoff"
              /\ MultiSeriesSetUp(fw_indicator_blocks, fw_indicators[s].map)

(***************************************************************************)
(* The rolling window.                                                     *)
(***************************************************************************)
\* the window of the symbol after a refresh that had bars to merge
Refreshed ==
    /\ fw_pc = "refresh"
    /\ fw_cycle > 0
    /\ ~fw_log[1].fetched.raised
    /\ Len(fw_log[1].fetched.bars) > 0

\* C19: after every refresh of a symbol's rolling window in the forward
\* driver (the first fetch included) the window holds at most N = 100 bars,
\* contains no two bars with the same timestamp, and for a duplicated
\* timestamp keeps the most recently fetched bar.
C19_WindowAfterRefresh ==
    Refreshed =>
        LET window == fw_data_windows[SharedSymbol].bars
            fetched == fw_log[1].fetched.bars
        IN /\ Len(window) <= window_size
           /\ \A i, j \in 1..Len(window) :
                 window[i].timestamp = window[j].timestamp => i = j
           /\ \A i \in 1..Len(window) : \A k \in 1..Len(fetched) :
                 window[i].timestamp = fetched[k].timestamp => window[i] = fetched[k]

(***************************************************************************)
(* The equity curve of a backtest.                                         *)
(***************************************************************************)
\* the curve of a completed run: one sample per bar, in bar order
OneSamplePerBar ==
    (bt_pc = "done" /\ bt_result.status = "completed") =>
        /\ Len(bt_result.equityCurve) = Len(bt_df.bars)
        /\ \A i \in 1..Len(bt_result.equityCurve) :
              bt_result.equityCurve[i].timestamp = i - 1

\* C20: a completed backtest's equity curve has exactly one sample per bar,
\* in bar order, and the sample for bar i equals cash plus quantity *
\* close[i] of the position held when bar i begins (before that bar's exit
\* checks and actions); samples are only appended, never changed or removed.
C20_EquityCurve ==
    [][/\ OneSamplePerBar'
       /\ bt_equity_curve' # bt_equity_curve =>
             /\ bt_pc = "bar"
             /\ bt_idx < Len(bt_df.bars)
             /\ Len(bt_equity_curve) = bt_idx
             /\ bt_equity_curve' =
                    Append(bt_equity_curve,
                           [timestamp |-> bt_idx,
                            value |-> IF bt_position = None THEN bt_cash
                                      ELSE RAdd(bt_cash,
                                                RMul(bt_position.qty,
                                                     RInt(bt_df.bars[bt_idx + 1].close)))])
       /\ (bt_pc = "bar" /\ bt_idx < Len(bt_df.bars)) =>
             Len(bt_equity_curve') = Len(bt_equity_curve) + 1
      ]_vars

\* a completed run over MaxBars bars that held a position while the close
\* moved: a sample of its curve is not the capital, and the curve is the
\* one the bars left
C20_Witness ==
    /\ bt_pc = "done"
    /\ bt_result.status = "completed"
    /\ Len(bt_df.bars) = MaxBars
    /\ bt_result.equityCurve = bt_equity_curve
    /\ Len(bt_result.trades) > 0
    /\ \E i \in 1..Len(bt_equity_curve) :
          /\ bt_equity_curve[i].value # bt_initial_capital
          /\ bt_df.bars[i].close # bt_df.bars[1].close

(***************************************************************************)
(* C21 to C30.                                                             *)
(***************************************************************************)
\* the data source answered no bar for the symbol whose events fw_log holds
\* (an empty answer or an exception of ticker.history)
NoBarsAnswered == Len(fw_log) > 0 /\ fw_log[1].e = "symbol" /\ fw_log[1].bars = 0

\* C21: in the forward driver, when the data source returns no bars (or
\* fails) for a symbol in a polling cycle, the symbol's cycle is skipped: no
\* exit trigger closes, no condition is evaluated and the ledger neither
\* opens nor closes for that symbol in that cycle, whether or not a window
\* of earlier cycles exists.
C21_NoDataSkipsCycle == NoBarsAnswered => Len(fw_log) = 1

\* the closes of fw_log made by an exit trigger of _check_exit_conditions
ExitTriggerCloses ==
    {k \in EventsOf(fw_log, "close") : fw_log[k].reason \in {"stop-loss", "take-profit"}}

\* C22: in the forward driver, when a stop-loss or take-profit trigger
\* closes a symbol's position in a polling cycle, the cycle evaluates no
\* condition and executes no action for that symbol: the close is the last
\* event of the symbol's cycle, and no position is opened for the symbol in
\* the cycle in which the trigger closed it.
C22_ExitSkipsEvaluation ==
    \A k \in ExitTriggerCloses :
        /\ k = Len(fw_log)
        /\ fw_portfolio.holdings[fw_log[1].symbol] = None

(***************************************************************************)
(* Trade statistics of the metrics.                                        *)
(***************************************************************************)
\* the metrics calculator returned the metrics of a run with equity samples
MetricsComputed == bt_pc = "done" /\ bt_result.status = "completed" /\ bt_equity_curve # <<>>

\* the recorded trades whose pnl has the sign (1, 0, -1)
TradesOfSign(sign) ==
    {k \in 1..Len(bt_trades) :
        CASE sign = 1 -> RGt(bt_trades[k].pnl, RInt(0))
          [] sign = -1 -> RLt(bt_trades[k].pnl, RInt(0))
          [] OTHER -> REq(bt_trades[k].pnl, RInt(0))}

RECURSIVE PnlOver(_)
PnlOver(S) ==
    IF S = {} THEN RInt(0)
    ELSE LET k == CHOOSE k \in S : TRUE
         IN RAdd(bt_trades[k].pnl, PnlOver(S \ {k}))

\* the mean pnl of the trades of the sign, 0 when there is none
MeanPnl(sign) ==
    IF TradesOfSign(sign) = {} THEN RInt(0)
    ELSE RDiv(PnlOver(TradesOfSign(sign)), RInt(Cardinality(TradesOfSign(sign))))

Magnitude(x) == IF x.n < 0 THEN Rat(-x.n, x.d) ELSE x

\* v is a number of hundredths, one nearest to x
ToTwoDecimals(v, x) ==
    /\ v.d # 0
    /\ 100 % v.d = 0
    /\ RLe(Magnitude(RSub(v, x)), Rat(1, 200))

TradeCounts ==
    /\ bt_result.metrics.totalTrades = Len(bt_trades)
    /\ bt_result.metrics.winningTrades = Cardinality(TradesOfSign(1))
    /\ bt_result.metrics.losingTrades = Cardinality(TradesOfSign(-1))

\* C23 as stated: in the metrics of a completed backtest avgWin equals the
\* mean pnl of the trades with pnl > 0 and avgLoss equals the mean pnl of the
\* trades with pnl < 0 (each 0 when there is no such trade); trades with
\* pnl = 0 count in totalTrades and in neither winningTrades nor
\* losingTrades.
C23_AvgWinLossAreMeans ==
    MetricsComputed =>
        /\ bt_result.metrics.avgWin = MeanPnl(1)
        /\ bt_result.metrics.avgLoss = MeanPnl(-1)
        /\ TradeCounts

\* C23: in the metrics of a completed backtest avgWin is the mean pnl of the
\* trades with pnl > 0 and avgLoss is the magnitude (the absolute value) of
\* the mean pnl of the trades with pnl < 0, each rounded to two decimals and
\* each 0 when there is no such trade; trades with pnl = 0 count in
\* totalTrades and in neither winningTrades nor losingTrades.
C23_AvgWinLoss ==
    MetricsComputed =>
        /\ ToTwoDecimals(bt_result.metrics.avgWin, MeanPnl(1))
        /\ ToTwoDecimals(bt_result.metrics.avgLoss, Magnitude(MeanPnl(-1)))
        /\ TradeCounts

\* metrics of a flat trade and a losing one whose pnl is -10/3: one trade of
\* two is losing, none is winning, and avgLoss is reported as 3.33
C23_Witness ==
    /\ MetricsComputed
    /\ Len(bt_trades) = 2
    /\ TradesOfSign(0) # {}
    /\ \E k \in TradesOfSign(-1) : bt_trades[k].pnl = Rat(-10, 3)
    /\ bt_result.metrics.avgLoss = Rat(333, 100)
    /\ bt_result.metrics.avgWin = RInt(0)

(***************************************************************************)
(* Comparisons over ids that contain one another.                          *)
(***************************************************************************)
\* the value an operand of a comparison stands for: a number literal, or the
\* value at idx of the series whose id is the operand
OperandValue(w) ==
    IF IsNumLit(w) THEN ParseNum(w)
    ELSE LET series == IndSeries(ce_indicators, w)
         IN IF ce_idx < Len(series) THEN series[ce_idx + 1] ELSE NaN

\* the operand is a number literal or the id of a series of the map
OperandPresent(w) == IsNumLit(w) \/ IndHas(ce_indicators, w)

\* the comparisons whose text is the expression evaluated, operands present
ComparisonsEvaluated ==
    {c \in PrefixComparisons :
        /\ ce_pc = "return"
        /\ ce_expr = Cmp(c[1], c[2], c[3])
        /\ OperandPresent(c[1])
        /\ OperandPresent(c[3])}

\* C24: for any indicator map and any comparison 'X op c' or 'X op Y' whose
\* operands are block ids present in the map, the result is the comparison
\* applied to the values at idx of exactly the series X (and Y); a series
\* whose id is no token of the expression, an id that is a prefix or a
\* substring of a referenced id included (b1 and b10, b1 and b1_signal), has
\* no effect on the result.
C24_OnlyReferencedSeries ==
    \A c \in ComparisonsEvaluated :
        ce_result = BinOp(c[2], OperandValue(c[1]), OperandValue(c[3]))

(***************************************************************************)
(* Transitions of the backtest ledger within one bar.                      *)
(***************************************************************************)
\* the opens and closes made while the bar of bt_log was processed (the
\* close at the end of the run comes after the loop over the bars)
BarTransitions ==
    {k \in 1..Len(bt_log) :
        \/ bt_log[k].e = "open"
        \/ bt_log[k].e = "close" /\ bt_log[k].reason # "end-of-backtest"}

\* C25: within the processing of a single bar the backtest ledger performs
\* at most one transition (one open or one close), for any ordered list of
\* action blocks: a position is never opened and closed, or closed and
\* reopened, on the same bar.
C25_OneTransitionPerBar == Cardinality(BarTransitions) <= 1

(***************************************************************************)
(* The final value of a backtest.                                          *)
(***************************************************************************)
\* a backtest has returned its result for bars it simulated
BTCompleted ==
    /\ bt_pc = "done"
    /\ bt_result.status = "completed"
    /\ bt_result.equityCurve # <<>>

\* the final cash is the initial capital plus the pnl of the recorded trades
CashIsCapitalPlusPnl ==
    REq(bt_cash, RAdd(bt_initial_capital, SumPnl(bt_trades, Len(bt_trades))))

\* C26: on every completed backtest the last equity-curve value (the one
\* reported as finalValue and used for the total return) equals the final
\* cash balance after all positions are closed, which equals the initial
\* capital plus the sum of pnl over all recorded trades.
C26_FinalValueIsFinalCash ==
    BTCompleted =>
        /\ bt_position = None
        /\ REq(Last(bt_result.equityCurve).value, bt_cash)
        /\ CashIsCapitalPlusPnl

(***************************************************************************)
(* Worker threads of a runner and the registry.                            *)
(***************************************************************************)
\* the worker threads of runner r that are inside a polling cycle
PollingThreads(r) ==
    {t \in 1..Len(threads) : threads[t].runner = r /\ threads[t].pc = "cycle"}

\* the step is a call of start() on a runner whose flag is set
StartWhileRunning(r) ==
    /\ calls' = calls + 1
    /\ caller'.op = "start"
    /\ runners[r].is_running

\* C27: under any sequence of start() and stop() calls on one ForwardRunner
\* (start, a stop whose join times out while the worker sleeps, and start
\* again included), at most one worker loop of the runner is alive and
\* executing polling cycles at any time, and start() while running is a
\* no-op.
C27_OneWorkerLoop ==
    [][\A r \in 1..Len(runners) :
          /\ Cardinality(PollingThreads(r)') <= 1
          /\ StartWhileRunning(r) => UNCHANGED <<runners, threads>>]_vars

\* every runner whose running flag is set is the one the registry holds
\* under its deployment id
RunningIsRegistered ==
    \A r \in 1..Len(runners) :
        runners[r].is_running => active_runners[runners[r].deployment_id] = r

\* after stop_deployment(id) has returned no runner deployed under id is
\* running
StoppedMeansStopped ==
    (caller.pc = "ready" /\ caller.op = "stop_deployment") =>
        \A r \in 1..Len(runners) :
            runners[r].deployment_id = caller.arg => ~runners[r].is_running

\* the step is a call of stop_deployment for an id the registry does not hold
StopUnregistered ==
    /\ calls' = calls + 1
    /\ caller'.op = "stop_deployment"
    /\ active_runners[caller'.arg] = 0

\* C28: for any sequence of deploy_strategy and stop_deployment calls
\* (deploying twice under one deployment id included) every worker whose
\* running flag is still set is registered in active_runners under its
\* deployment id, so that after stop_deployment(id) no worker deployed under
\* id keeps polling; stop_deployment for an id that is not registered
\* changes nothing and raises no error.
C28_RunningIsRegistered ==
    [][/\ RunningIsRegistered'
       /\ StoppedMeansStopped'
       /\ StopUnregistered =>
              /\ UNCHANGED <<runners, threads, active_runners>>
              /\ caller'.pc = "ready"]_vars

(***************************************************************************)
(* Action execution and the latest bar of the forward window.              *)
(***************************************************************************)
\* the opens and closes of a position of the symbol the action blocks made:
\* the entries of its trades and the exits of those closed by SELL or
\* EXIT_ALL, each with its clock reading (the polling cycle) and its price
ActionsOn(symbol) ==
    {[time |-> fw_portfolio.trades[k].entryTime,
      price |-> fw_portfolio.trades[k].entryPrice] :
        k \in {j \in 1..Len(fw_portfolio.trades) :
                  fw_portfolio.trades[j].symbol = symbol}}
    \cup {[time |-> fw_portfolio.trades[k].exitTime,
           price |-> fw_portfolio.trades[k].exitPrice] :
             k \in {j \in 1..Len(fw_portfolio.trades) :
                       /\ fw_portfolio.trades[j].symbol = symbol
                       /\ fw_portfolio.trades[j].status = "closed"
                       /\ fw_portfolio.trades[j].exitReason \in {"logic", "exit-all"}}}

\* the window of the symbol holds one bar, so that every polling cycle so
\* far had the bar of that one timestamp as its latest bar, and the actions
\* on the symbol were all executed at the close the bar has now
SameBarSoFar(symbol) ==
    /\ fw_data_windows[symbol] # None
    /\ Len(fw_data_windows[symbol].bars) = 1
    /\ \A a \in ActionsOn(symbol) : a.price = RInt(fw_data_windows[symbol].bars[1].close)

\* C29: in the forward driver a given latest bar (identified by its
\* timestamp) triggers action execution for a symbol at most once: when
\* consecutive polling cycles return no newer bar, the conditions evaluated
\* on the unchanged latest bar cause no further opens or closes.
C29_OncePerBar ==
    fw_portfolio # None =>
        \A symbol \in Symbols :
            SameBarSoFar(symbol) =>
                Cardinality({a.time : a \in ActionsOn(symbol)}) <= 1

(***************************************************************************)
(* Exit prices and the range of the bar.                                   *)
(***************************************************************************)
\* the bar on which the trade was closed
ExitBar(trade) == bt_df.bars[trade.exitTime + 1]

\* C30: every trade recorded by the backtest has an exit price within the
\* [low, high] range of the bar on which it was closed, for every exit
\* reason (stop-loss, take-profit, logic, exit-all, end-of-backtest), bars
\* that gap entirely below the stop-loss price or entirely above the
\* take-profit price included.
C30_ExitPriceWithinBar ==
    \A k \in 1..Len(bt_trades) :
        /\ RLe(RInt(ExitBar(bt_trades[k]).low), bt_trades[k].exitPrice)
        /\ RLe(bt_trades[k].exitPrice, RInt(ExitBar(bt_trades[k]).high))

====
